---- MODULE Spec2Model ----
(***************************************************************************)
(* A model of the scanalyze backend's safety core:                          *)
(*   - DecisionEngine (app/service/decision_service.py): per-ingredient    *)
(*     risk scoring against the user's profile, product aggregation,       *)
(*     risk level and recommendation;                                      *)
(*   - HEDIntegrationService (app/service/hed_integration_service.py):     *)
(*     relevance filter, HED per toxicity entry, most conservative HED.    *)
(*                                                                         *)
(* Text values that the code lower-cases, upper-cases, strips or searches  *)
(* are sequences of one-character strings, so that these conversions are   *)
(* computed and not assumed.  Values the code only compares for equality   *)
(* are plain strings.                                                      *)
(***************************************************************************)
EXTENDS Integers, Sequences, FiniteSets, TLC

VARIABLES
    profile,    \* the user's row of the graph store: existence, UserProfile properties, conditions
    product,    \* the keys of the Ingredient nodes the Product CONTAINS
    decision,   \* what decide_product returned (NoDecision before the call)
    entries,    \* the dermal_toxicity_values list handed to process_dermal_toxicity_values
    hedOut,     \* what process_dermal_toxicity_values did (NotCalled before the call)
    calcCall,   \* the HEDCalculator call to make: operation and arguments
    calcOut,    \* what the HEDCalculator call gave (CalcNotCalled before the call)
    world,      \* what the sources of each domain do for the mapped name
    hashSeed,   \* the string hash seed of the process
    schedule,   \* the order in which the collectors of the latest call completed
    rescheduled,\* a later call's collectors completed in another order than an earlier one's
    mapOuts,    \* the results of the calls of map_ingredient, in call order
    queryLog,   \* the searches each collector of the latest call made, in their order
    names,      \* the list handed to map_ingredients_batch
    batchOut,   \* what map_ingredients_batch returned, in a sequence; empty before the call
    adapterCall,\* the source adapter asked and what its transport does
    adapterOut, \* what search_by_name gave, in a sequence; empty before the call
    runPhase,   \* where a running map_ingredients_batch is: not_called, gathering, returned
    runI,       \* the place in the list of the first name of the current chunk
    inFlight,   \* the mappings started and not finished: place |-> sleeps taken so far
    finished,   \* the places whose mapping has finished
    sleepLog,   \* the asyncio.sleep calls made so far, in their order
    rateLimit,  \* rate_limit of the adapter, in tenths of a second
    clock,      \* time.time(), in tenths of a second
    lastRequestTime, \* last_request_time of the adapter
    requests,   \* the calls of _make_request: where each one is
    sentAt,     \* the times at which the HTTP requests were sent, in their order
    assessments \* a list of ingredient assessments handed to the aggregation

calcVars == <<calcCall, calcOut>>
mapVars == <<world, hashSeed, schedule, rescheduled, mapOuts, queryLog>>
batchVars == <<names, batchOut>>
adapterVars == <<adapterCall, adapterOut>>
runVars == <<runPhase, runI, inFlight, finished, sleepLog>>
rateVars == <<rateLimit, clock, lastRequestTime, requests, sentAt>>
vars == <<profile, product, decision, entries, hedOut, calcVars, mapVars, batchVars, adapterVars,
          runVars, rateVars, assessments>>

(***************************************************************************)
(* Bounds of the model.                                                    *)
(***************************************************************************)
MaxProfileTraits == 2   \* profile attributes that differ from the coalesce defaults
MaxIngredients == 4     \* ingredients of the product
MaxEntries == 2         \* toxicity entries of one ingredient
MaxSpecies == 2         \* species of a NOAEL map
MaxNames == 4           \* names of a batch
MaxRunNames == 7        \* names of a batch that is followed step by step
MaxRequests == 3        \* calls of _make_request on one adapter
StartTime == 20         \* time.time() at the first call, in tenths of a second
MaxTime == 45           \* the time up to which the requests are followed
MaxRows == 9            \* ingredient assessments of an aggregated list

(***************************************************************************)
(* Text.                                                                   *)
(***************************************************************************)
UpperLetters == <<"A","B","C","D","E","F","G","H","I","J","K","L","M",
                  "N","O","P","Q","R","S","T","U","V","W","X","Y","Z">>
LowerLetters == <<"a","b","c","d","e","f","g","h","i","j","k","l","m",
                  "n","o","p","q","r","s","t","u","v","w","x","y","z">>

\* The lower-case and upper-case form of every letter, as tables
LetterIndex(c, letters) == CHOOSE n \in 1..26 : letters[n] = c

LowerOfUpper == [c \in {UpperLetters[n] : n \in 1..26} |-> LowerLetters[LetterIndex(c, UpperLetters)]]
UpperOfLower == [c \in {LowerLetters[n] : n \in 1..26} |-> UpperLetters[LetterIndex(c, LowerLetters)]]

LowerChar(c) == IF c \in DOMAIN LowerOfUpper THEN LowerOfUpper[c] ELSE c

UpperChar(c) == IF c \in DOMAIN UpperOfLower THEN UpperOfLower[c] ELSE c

\* Cypher toLower / Python str.lower
toLower(s) == [i \in 1..Len(s) |-> LowerChar(s[i])]

\* Python str.upper
toUpper(s) == [i \in 1..Len(s) |-> UpperChar(s[i])]

\* Cypher CONTAINS
Contains(s, sub) ==
    \E i \in 0..(Len(s) - Len(sub)) : SubSeq(s, i + 1, i + Len(sub)) = sub

\* Python str.startswith
StartsWith(s, pre) == Len(pre) <= Len(s) /\ SubSeq(s, 1, Len(pre)) = pre

\* Cypher: x IN list
InList(x, list) == \E i \in 1..Len(list) : list[i] = x

MapLower(list) == [i \in 1..Len(list) |-> toLower(list[i])]

(***************************************************************************)
(* The graph store's contents that decide_product reads.                   *)
(***************************************************************************)
\* INCI names and blacklist entries, as character sequences
Aqua == <<"A","q","u","a">>
Parfum == <<"P","a","r","f","u","m">>
ParfumUpper == <<"P","A","R","F","U","M">>
Retinol == <<"R","e","t","i","n","o","l">>
RetinolLower == <<"r","e","t","i","n","o","l">>
CitricAcid == <<"C","i","t","r","i","c"," ","A","c","i","d">>
AscorbicAcid == <<"A","s","c","o","r","b","i","c"," ","A","c","i","d">>
Methylparaben == <<"M","e","t","h","y","l","p","a","r","a","b","e","n">>
SLS == <<"S","L","S">>
Dimethicone == <<"D","i","m","e","t","h","i","c","o","n","e">>

\* The substrings and exact names the scoring query looks for (all lower case)
s_parfum == <<"p","a","r","f","u","m">>
s_fragrance == <<"f","r","a","g","r","a","n","c","e">>
s_acid == <<"a","c","i","d">>
s_ascorbic == <<"a","s","c","o","r","b","i","c">>
s_retinol == <<"r","e","t","i","n","o","l">>
s_paraben == <<"p","a","r","a","b","e","n">>
s_sulfate == <<"s","u","l","f","a","t","e">>
s_sls == <<"s","l","s">>
s_sles == <<"s","l","e","s">>
s_siloxane == <<"s","i","l","o","x","a","n","e">>
s_dimethicone == <<"d","i","m","e","t","h","i","c","o","n","e">>

\* "No HEDAssessment node" (OPTIONAL MATCH gives null)
NoHed == "NULL"

\* The Ingredient nodes of the store, each with its HEDAssessment's
\* risk_assessment and its Hazard nodes (severity, route, effect names).
Catalogue ==
    { [key |-> "aqua", inci |-> Aqua, hed |-> "LOW",
       hazards |-> {[severity |-> "high", route |-> "oral", effects |-> {"irritation"}]}],
      [key |-> "parfum", inci |-> Parfum, hed |-> NoHed,
       hazards |-> {[severity |-> "medium", route |-> "dermal", effects |-> {"sensitization"}]}],
      [key |-> "retinol", inci |-> Retinol, hed |-> "CRITICAL",
       hazards |-> {[severity |-> "high", route |-> "dermal",
                     effects |-> {"irritation", "photosensitivity"}]}],
      [key |-> "citric", inci |-> CitricAcid, hed |-> "CRITICAL",
       hazards |-> {[severity |-> "medium", route |-> "dermal", effects |-> {"irritation"}]}],
      [key |-> "ascorbic", inci |-> AscorbicAcid, hed |-> "CRITICAL",
       hazards |-> {[severity |-> "high", route |-> "dermal",
                     effects |-> {"irritation", "photodegradation"}]}],
      [key |-> "paraben", inci |-> Methylparaben, hed |-> "MODERATE",
       hazards |-> {[severity |-> "low", route |-> "dermal",
                     effects |-> {"comedogenic", "irritation"}],
                    [severity |-> "medium", route |-> "dermal", effects |-> {"oxidative_stress"}]}],
      [key |-> "sls", inci |-> SLS, hed |-> "HIGH",
       hazards |-> {[severity |-> "medium", route |-> "dermal", effects |-> {"irritation"}]}],
      [key |-> "dimethicone", inci |-> Dimethicone, hed |-> "SAFE_AT_TYPICAL_USE",
       hazards |-> {[severity |-> "low", route |-> "dermal", effects |-> {}]}] }

Keys == { i.key : i \in Catalogue }

Ingredient(k) == CHOOSE i \in Catalogue : i.key = k

\* decide_product's routes: the product route asks for ["dermal"], the default
Routes == {"dermal"}

\* The UserProfile properties as the query's step 6 sees them when the node
\* or the property is missing (coalesce defaults); no Condition nodes.
DefaultProfile ==
    [ exists |-> TRUE,
      conditions |-> {},
      known_intolerances |-> <<>>,
      dermatologist_avoid |-> <<>>,
      cosmetic_allergies |-> <<>>,
      photosensitizing_meds |-> <<>>,
      retinoid_therapy |-> FALSE,
      corticosteroid_use |-> "none",
      barrier_dysfunction |-> FALSE,
      sensitive_skin |-> FALSE,
      atopic_skin |-> FALSE,
      acne_prone |-> FALSE,
      avoid_categories |-> <<>>,
      fragrance_free |-> FALSE,
      sun_exposure |-> "moderate",
      pollution_exposure |-> "moderate" ]

\* A user the graph does not hold: MATCH (u:User {email: ...}) finds nothing
NoUser == [DefaultProfile EXCEPT !.exists = FALSE]

\* One profile attribute written to the store (SET up += $profile_props,
\* MERGE (u)-[:HAS_CONDITION]->(cond))
Traits ==
    { "intolerance_PARFUM", "avoid_retinol", "sensitiveSkin", "atopicSkin",
      "barrierDysfunction", "acneProne", "rosacea", "eczema", "psoriasis",
      "cosmeticAllergy", "photosensitizingMedication", "sun_high_outdoor",
      "retinoidTherapy", "corticosteroid_topical", "corticosteroid_both",
      "fragranceFree", "avoid_parabens", "avoid_sulfates", "avoid_silicones",
      "pollution_high" }

ProfileWith(T) ==
    [ exists |-> TRUE,
      conditions |-> {"rosacea", "eczema", "psoriasis"} \cap T,
      known_intolerances |->
          IF "intolerance_PARFUM" \in T THEN <<Aqua \o Parfum, ParfumUpper>> ELSE <<>>,
      dermatologist_avoid |->
          IF "avoid_retinol" \in T THEN <<RetinolLower>> ELSE <<>>,
      cosmetic_allergies |-> IF "cosmeticAllergy" \in T THEN <<"nickel">> ELSE <<>>,
      photosensitizing_meds |->
          IF "photosensitizingMedication" \in T THEN <<"doxycycline">> ELSE <<>>,
      retinoid_therapy |-> "retinoidTherapy" \in T,
      corticosteroid_use |->
          IF "corticosteroid_both" \in T THEN "both"
          ELSE IF "corticosteroid_topical" \in T THEN "topical" ELSE "none",
      barrier_dysfunction |-> "barrierDysfunction" \in T,
      sensitive_skin |-> "sensitiveSkin" \in T,
      atopic_skin |-> "atopicSkin" \in T,
      acne_prone |-> "acneProne" \in T,
      avoid_categories |->
          (IF "avoid_parabens" \in T THEN <<"parabens">> ELSE <<>>)
          \o (IF "avoid_sulfates" \in T THEN <<"sulfates">> ELSE <<>>)
          \o (IF "avoid_silicones" \in T THEN <<"silicones">> ELSE <<>>),
      fragrance_free |-> "fragranceFree" \in T,
      sun_exposure |-> IF "sun_high_outdoor" \in T THEN "high_outdoor" ELSE "moderate",
      pollution_exposure |-> IF "pollution_high" \in T THEN "high" ELSE "moderate" ]

\* The subsets of S with at most n elements
RECURSIVE SubsetsUpTo(_, _)
SubsetsUpTo(S, n) ==
    IF n = 0 THEN {{}}
    ELSE LET smaller == SubsetsUpTo(S, n - 1)
         IN  smaller \cup { X \cup {x} : X \in smaller, x \in S }

Profiles == {NoUser} \cup { ProfileWith(T) : T \in SubsetsUpTo(Traits, MaxProfileTraits) }

Products == SubsetsUpTo(Keys, MaxIngredients)

(***************************************************************************)
(* DecisionEngine._assess_ingredients: the scoring query, per ingredient.  *)
(* p is the profile of step 6, i an Ingredient node of the product.        *)
(***************************************************************************)
\* Weights ($weight_hed ...), in hundredths
WEIGHT_HED_SAFETY == 35
WEIGHT_PROFILE_MATCH == 25
WEIGHT_MEDICATION_INTERACTION == 20
WEIGHT_PREFERENCE_VIOLATION == 15
WEIGHT_ENVIRONMENTAL == 5

\* Step 5: the ingredient's hazards on the asked routes (WHERE h.route IN $routes)
HazardsOf(i) == { h \in i.hazards : h.route \in Routes }

\* ANY(h IN hazards WHERE e1 IN h.effects OR e2 IN h.effects ...)
AnyEffect(i, effs) == \E h \in HazardsOf(i) : h.effects \cap effs # {}

NameHas(i, sub) == Contains(toLower(i.inci), sub)

\* blacklist_score comparing the name with the list entries as they are written
blacklist_score_CaseSensitive(p, i) ==
    IF InList(i.inci, p.known_intolerances) THEN 100
    ELSE IF InList(i.inci, p.dermatologist_avoid) THEN 95
    ELSE 0

blacklist_score(p, i) ==
    IF InList(toLower(i.inci), MapLower(p.known_intolerances)) THEN 100
    ELSE IF InList(toLower(i.inci), MapLower(p.dermatologist_avoid)) THEN 95
    ELSE 0

hed_risk_score(i) ==
    CASE i.hed = "CRITICAL" -> 90
      [] i.hed = "HIGH" -> 70
      [] i.hed = "MODERATE" -> 45
      [] i.hed = "LOW" -> 15
      [] OTHER -> 25

\* profile_match_score taking the highest score among the rules that match
profile_match_score_Highest(p, i) ==
    LET matched ==
            (IF (p.sensitive_skin \/ p.atopic_skin)
                /\ AnyEffect(i, {"irritation", "sensitization"}) THEN {75} ELSE {})
            \cup (IF p.barrier_dysfunction /\ (\E h \in HazardsOf(i) : h.severity = "high")
                  THEN {70} ELSE {})
            \cup (IF p.acne_prone /\ AnyEffect(i, {"comedogenic"}) THEN {60} ELSE {})
            \cup (IF (p.sensitive_skin \/ "rosacea" \in p.conditions)
                     /\ (NameHas(i, s_parfum) \/ NameHas(i, s_fragrance)) THEN {65} ELSE {})
            \cup (IF ("eczema" \in p.conditions \/ "psoriasis" \in p.conditions)
                     /\ AnyEffect(i, {"irritation"}) THEN {70} ELSE {})
            \cup (IF Len(p.cosmetic_allergies) > 0 /\ AnyEffect(i, {"sensitization"})
                  THEN {55} ELSE {})
    IN  IF matched = {} THEN 20 ELSE CHOOSE x \in matched : \A y \in matched : x >= y

profile_match_score(p, i) ==
    IF (p.sensitive_skin \/ p.atopic_skin) /\ AnyEffect(i, {"irritation", "sensitization"})
    THEN 75
    ELSE IF p.barrier_dysfunction /\ (\E h \in HazardsOf(i) : h.severity = "high")
    THEN 70
    ELSE IF p.acne_prone /\ AnyEffect(i, {"comedogenic"})
    THEN 60
    ELSE IF (p.sensitive_skin \/ "rosacea" \in p.conditions)
            /\ (NameHas(i, s_parfum) \/ NameHas(i, s_fragrance))
    THEN 65
    ELSE IF ("eczema" \in p.conditions \/ "psoriasis" \in p.conditions)
            /\ AnyEffect(i, {"irritation"})
    THEN 70
    ELSE IF Len(p.cosmetic_allergies) > 0 /\ AnyEffect(i, {"sensitization"})
    THEN 55
    ELSE 20

medication_interaction_score(p, i) ==
    IF Len(p.photosensitizing_meds) > 0 /\ p.sun_exposure = "high_outdoor"
       /\ AnyEffect(i, {"photosensitivity"})
    THEN 85
    ELSE IF p.retinoid_therapy
            /\ (NameHas(i, s_acid) \/ NameHas(i, s_ascorbic) \/ NameHas(i, s_retinol))
    THEN 60
    ELSE IF p.corticosteroid_use \in {"topical", "both"} /\ p.barrier_dysfunction
    THEN 50
    ELSE 10

preference_violation_score(p, i) ==
    IF p.fragrance_free /\ (NameHas(i, s_parfum) \/ NameHas(i, s_fragrance))
    THEN 40
    ELSE IF InList("parabens", p.avoid_categories) /\ NameHas(i, s_paraben)
    THEN 35
    ELSE IF InList("sulfates", p.avoid_categories)
            /\ (NameHas(i, s_sulfate) \/ toLower(i.inci) = s_sls \/ toLower(i.inci) = s_sles)
    THEN 35
    ELSE IF InList("silicones", p.avoid_categories)
            /\ (NameHas(i, s_siloxane) \/ NameHas(i, s_dimethicone))
    THEN 30
    ELSE 5

environmental_risk_score(p, i) ==
    IF p.pollution_exposure = "high" /\ AnyEffect(i, {"oxidative_stress"})
    THEN 25
    ELSE IF p.sun_exposure = "high_outdoor"
            /\ AnyEffect(i, {"photodegradation", "photosensitivity"})
    THEN 30
    ELSE 5

\* Cypher round() of n/100 for n >= 0: to the nearest integer, a tie upwards.
\* (The float sum of the five products rounds the same way as the exact sum
\* for every combination of sub-scores the query can produce.)
CypherRound(n) == (n + 50) \div 100

\* the five sub-scores weighted alike
WeightedSum_EqualWeights(hed, prof, med, pref, env) ==
    (hed + prof + med + pref + env) * 20

WeightedSum(hed, prof, med, pref, env) ==
    hed * WEIGHT_HED_SAFETY + prof * WEIGHT_PROFILE_MATCH
    + med * WEIGHT_MEDICATION_INTERACTION + pref * WEIGHT_PREFERENCE_VIOLATION
    + env * WEIGHT_ENVIRONMENTAL

\* final_risk_score adding the blacklist score to the weighted score
final_risk_score_Additive(bl, hed, prof, med, pref, env) ==
    bl + CypherRound(WeightedSum(hed, prof, med, pref, env))

\* final_risk_score without the blacklist override
final_risk_score_NoOverride(bl, hed, prof, med, pref, env) ==
    CypherRound(WeightedSum(hed, prof, med, pref, env))

\* Step 8
final_risk_score(bl, hed, prof, med, pref, env) ==
    IF bl >= 90 THEN bl ELSE CypherRound(WeightedSum(hed, prof, med, pref, env))

\* Step 10: the query's own risk level
QueryRiskLevel(score) ==
    IF score >= 86 THEN "CRITICAL"
    ELSE IF score >= 61 THEN "HIGH"
    ELSE IF score >= 31 THEN "MODERATE"
    ELSE "LOW"

\* One returned row
AssessIngredient(p, i) ==
    LET bl == blacklist_score(p, i)
        hed == hed_risk_score(i)
        prof == profile_match_score(p, i)
        med == medication_interaction_score(p, i)
        pref == preference_violation_score(p, i)
        env == environmental_risk_score(p, i)
        score == final_risk_score(bl, hed, prof, med, pref, env)
    IN  [ inci |-> i.inci,
          ingredient_key |-> i.key,
          risk_score |-> score,
          risk_level |-> QueryRiskLevel(score),
          score_breakdown |->
              [ blacklist |-> bl, hed |-> hed, profile_match |-> prof,
                medication |-> med, preference |-> pref, environmental |-> env ] ]

\* ORDER BY risk_score DESC (rows of equal score in some order)
RECURSIVE OrderByScoreDesc(_)
OrderByScoreDesc(rows) ==
    IF rows = {} THEN <<>>
    ELSE LET top == CHOOSE r \in rows : \A q \in rows : r.risk_score >= q.risk_score
         IN  <<top>> \o OrderByScoreDesc(rows \ {top})

\* The rows of the query: none when the user is not in the graph (the first
\* MATCH) or the product holds no ingredient
AssessIngredients(p, prod) ==
    IF ~p.exists THEN <<>>
    ELSE OrderByScoreDesc({ AssessIngredient(p, Ingredient(k)) : k \in prod })

(***************************************************************************)
(* DecisionEngine: aggregation, risk level, recommendation.                *)
(***************************************************************************)
THRESHOLD_LOW == 30
THRESHOLD_MODERATE == 60
THRESHOLD_HIGH == 85

CountLevel(ingredients, level) ==
    Cardinality({ n \in 1..Len(ingredients) : ingredients[n].risk_level = level })

\* The weight of one ingredient in the weighted average (3.0, 2.0, 1.0)
ScoreWeight(score) == IF score >= 61 THEN 3 ELSE IF score >= 31 THEN 2 ELSE 1

RECURSIVE WeightedScoreSum(_)
WeightedScoreSum(ingredients) ==
    IF ingredients = <<>> THEN 0
    ELSE Head(ingredients).risk_score * ScoreWeight(Head(ingredients).risk_score)
         + WeightedScoreSum(Tail(ingredients))

RECURSIVE WeightSum(_)
WeightSum(ingredients) ==
    IF ingredients = <<>> THEN 0
    ELSE ScoreWeight(Head(ingredients).risk_score) + WeightSum(Tail(ingredients))

\* Python round(num / den) for num >= 0, den > 0: to the nearest integer, a
\* tie to the even one
PyRound(num, den) ==
    LET q == num \div den
        r == num % den
    IN  IF 2 * r < den THEN q
        ELSE IF 2 * r > den THEN q + 1
        ELSE IF q % 2 = 0 THEN q ELSE q + 1

MaxOf(S) == CHOOSE x \in S : \A y \in S : x >= y

Summary(ingredients) ==
    [ critical_count |-> CountLevel(ingredients, "CRITICAL"),
      high_count |-> CountLevel(ingredients, "HIGH"),
      moderate_count |-> CountLevel(ingredients, "MODERATE"),
      low_count |-> CountLevel(ingredients, "LOW") ]

\* _calculate_overall_risk without the critical-ingredient branch
calculate_overall_risk_AverageOnly(ingredients) ==
    IF ingredients = <<>>
    THEN <<0, [critical_count |-> 0, high_count |-> 0, moderate_count |-> 0, low_count |-> 0]>>
    ELSE << PyRound(WeightedScoreSum(ingredients), WeightSum(ingredients)),
            Summary(ingredients) >>

\* _calculate_overall_risk: <<overall_score, summary>>
calculate_overall_risk(ingredients) ==
    IF ingredients = <<>>
    THEN <<0, [critical_count |-> 0, high_count |-> 0, moderate_count |-> 0, low_count |-> 0]>>
    ELSE LET summary == Summary(ingredients)
         IN  IF summary.critical_count > 0
             THEN << MaxOf({ ingredients[n].risk_score :
                               n \in { m \in 1..Len(ingredients) :
                                         ingredients[m].risk_level = "CRITICAL" } }),
                     summary >>
             ELSE << IF WeightSum(ingredients) > 0
                     THEN PyRound(WeightedScoreSum(ingredients), WeightSum(ingredients))
                     ELSE 0,
                     summary >>

\* _get_risk_level
get_risk_level(score) ==
    IF score >= THRESHOLD_HIGH THEN "CRITICAL"
    ELSE IF score >= THRESHOLD_MODERATE THEN "HIGH"
    ELSE IF score >= THRESHOLD_LOW THEN "MODERATE"
    ELSE "LOW"

R_Avoid == "Avoid this product - contains ingredients unsuitable for your profile"
R_NotRecommended == "Not recommended - multiple high-risk ingredients detected"
R_ExtremeCaution == "Use with extreme caution - consult dermatologist first"
R_Caution == "Use with caution - some ingredients may cause issues"
R_GenerallySafe == "Generally safe, but monitor for reactions"
R_Safe == "Safe to use - all ingredients suitable for your profile"
R_SafeMinor == "Safe to use - minor considerations noted"

\* _get_recommendation
get_recommendation(risk_level, summary) ==
    IF risk_level = "CRITICAL" THEN R_Avoid
    ELSE IF risk_level = "HIGH"
    THEN (IF summary.critical_count > 0 \/ summary.high_count >= 3
          THEN R_NotRecommended ELSE R_ExtremeCaution)
    ELSE IF risk_level = "MODERATE"
    THEN (IF summary.high_count > 0 THEN R_Caution ELSE R_GenerallySafe)
    ELSE IF summary.moderate_count = 0 THEN R_Safe
    ELSE R_SafeMinor

\* decide_product after the query: what it returns for the rows of the query
DecisionOfRows(ingredients_assessment) ==
    LET overall == calculate_overall_risk(ingredients_assessment)
        risk_level == get_risk_level(overall[1])
    IN  [ called |-> TRUE,
          overall_risk |-> risk_level,
          risk_score |-> overall[1],
          recommendation |-> get_recommendation(risk_level, overall[2]),
          ingredients |-> ingredients_assessment,
          summary |-> overall[2] ]

\* decide_product's returned dictionary
DecisionFor(p, prod) == DecisionOfRows(AssessIngredients(p, prod))

\* A row of the query with a given final score, its level by the query's Step 10
AssessedRow(score) ==
    [inci |-> <<>>, ingredient_key |-> "", risk_score |-> score,
     risk_level |-> QueryRiskLevel(score)]

\* Final scores of rows: the baseline without HED data (17), the scores at
\* the cut points, a blacklisted ingredient (100)
AssessmentScores == {17, 30, 31, 61, 85, 100}

\* The lists of up to n rows in the order of the query (risk_score descending)
RECURSIVE AssessmentLists(_)
AssessmentLists(n) ==
    IF n = 0 THEN {<<>>}
    ELSE LET shorter == AssessmentLists(n - 1)
         IN  shorter \cup
             { Append(l, AssessedRow(sc)) :
                 <<l, sc>> \in { pair \in shorter \X AssessmentScores :
                                   \/ pair[1] = <<>>
                                   \/ pair[1][Len(pair[1])].risk_score >= pair[2] } }

NoDecision ==
    [ called |-> FALSE, overall_risk |-> "", risk_score |-> 0, recommendation |-> "",
      ingredients |-> <<>>,
      summary |-> [critical_count |-> 0, high_count |-> 0, moderate_count |-> 0, low_count |-> 0] ]

(***************************************************************************)
(* HEDCalculator (app/utils/hed_calculator.py): species and Km factors.    *)
(***************************************************************************)
\* KM_FACTORS, by the Species member's value ("rat", "monkey_rhesus", ...)
KM_FACTORS ==
    ("human" :> 37) @@ ("mouse" :> 3) @@ ("hamster" :> 5) @@ ("rat" :> 6) @@ ("ferret" :> 7) @@ ("guinea_pig" :> 8) @@ ("rabbit" :> 12) @@ ("dog" :> 20) @@ ("monkey_rhesus" :> 12) @@ ("marmoset" :> 6) @@ ("squirrel_monkey" :> 7) @@ ("baboon" :> 20) @@ ("micro_pig" :> 27) @@ ("mini_pig" :> 35)

\* calculate_hed_by_km (no custom Km): animal dose * (Km_animal / Km_human),
\* as the numerator and denominator of the exact quotient
HedNumerator(animal_dose_mg_kg, animal_species) == animal_dose_mg_kg * KM_FACTORS[animal_species]
HedDenominator == KM_FACTORS["human"]

(***************************************************************************)
(* HEDIntegrationService (app/service/hed_integration_service.py).         *)
(*                                                                         *)
(* A toxicity entry is a dictionary; each of its keys is absent, None, or  *)
(* holds a value: text for type, unit, route, species, a number (mg/kg or  *)
(* mL/kg, whole numbers here) for value.                                   *)
(***************************************************************************)
Str(s) == [k |-> "str", s |-> s]
None == [k |-> "none", s |-> <<>>]
Absent == [k |-> "absent", s |-> <<>>]
Num(n) == [k |-> "num", n |-> n]
NoneNum == [k |-> "none", n |-> 0]
AbsentNum == [k |-> "absent", n |-> 0]

\* dict.get(key, default) and dict.get(key)
Get(field, default) == IF field.k = "absent" THEN default ELSE field
GetOrNone(field) == IF field.k = "absent" THEN NoneNum ELSE field

SPECIES_MAPPING ==
    (<<"r","a","t">> :> "rat") @@
    (<<"m","o","u","s","e">> :> "mouse") @@
    (<<"r","a","b","b","i","t">> :> "rabbit") @@
    (<<"g","u","i","n","e","a"," ","p","i","g">> :> "guinea_pig") @@
    (<<"h","a","m","s","t","e","r">> :> "hamster") @@
    (<<"d","o","g">> :> "dog") @@
    (<<"f","e","r","r","e","t">> :> "ferret") @@
    (<<"m","o","n","k","e","y">> :> "monkey_rhesus") @@
    (<<"r","h","e","s","u","s">> :> "monkey_rhesus") @@
    (<<"m","a","r","m","o","s","e","t">> :> "marmoset") @@
    (<<"s","q","u","i","r","r","e","l"," ","m","o","n","k","e","y">> :> "squirrel_monkey") @@
    (<<"b","a","b","o","o","n">> :> "baboon") @@
    (<<"m","i","c","r","o"," ","p","i","g">> :> "micro_pig") @@
    (<<"m","i","n","i"," ","p","i","g">> :> "mini_pig") @@
    (<<"h","u","m","a","n">> :> "human")

RELEVANT_TOXICITY_TYPES ==
    (<<"N","O","A","E","L">> :> 1) @@
    (<<"N","O","E","L">> :> 2) @@
    (<<"N","E","L">> :> 3) @@
    (<<"L","O","A","E","L">> :> 4) @@
    (<<"L","O","E","L">> :> 5) @@
    (<<"L","E","L">> :> 6) @@
    (<<"L","D","5","0">> :> 7)

RELEVANT_ROUTES == { <<"o","r","a","l">>, <<"d","e","r","m","a","l">>, <<"g","a","v","a","g","e">>, <<"d","i","e","t">>, <<"d","r","i","n","k","i","n","g"," ","w","a","t","e","r">> }

CONVERTIBLE_UNITS == { <<"m","g","/","k","g">>, <<"m","g","/","k","g","-","d","a","y">>, <<"m","g","/","k","g","/","d","a","y">>, <<"m","g","/","k","g"," ","b","w","/","d","a","y">>, <<"m","g","/","k","g","-","b","w","/","d","a","y">> }

s_human == <<"h","u","m","a","n">>
s_ml_kg == <<"m","l","/","k","g">>

\* Python str.strip(): leading and trailing blanks removed
RECURSIVE StripLeft(_)
StripLeft(s) == IF s # <<>> /\ Head(s) = " " THEN StripLeft(Tail(s)) ELSE s

RECURSIVE StripRight(_)
StripRight(s) ==
    IF s # <<>> /\ s[Len(s)] = " " THEN StripRight(SubSeq(s, 1, Len(s) - 1)) ELSE s

Strip(s) == StripRight(StripLeft(s))

\* parse_species gives a Species member (by its value) or None
NoSpecies == "None"

parse_species(species_str) ==
    IF species_str.k = "none" \/ species_str.s = <<>> THEN NoSpecies
    ELSE LET species_lower == Strip(toLower(species_str.s))
         IN  IF species_lower \in DOMAIN SPECIES_MAPPING
             THEN SPECIES_MAPPING[species_lower] ELSE NoSpecies

\* is_relevant_toxicity_entry raises AttributeError when type, route or unit
\* is None: entry.get(key, "") returns the None, which has no upper()/lower()
RelevanceRaises(entry) ==
    \/ Get(entry.type, Str(<<>>)).k = "none"
    \/ Get(entry.route, Str(<<>>)).k = "none"
    \/ Get(entry.unit, Str(<<>>)).k = "none"

\* is_relevant_toxicity_entry, where it does not raise
is_relevant_toxicity_entry(entry) ==
    LET tox_type == toUpper(Get(entry.type, Str(<<>>)).s)
        route == toLower(Get(entry.route, Str(<<>>)).s)
        unit == toLower(Get(entry.unit, Str(<<>>)).s)
        species == Get(entry.species, Str(<<>>))
    IN  IF tox_type \notin DOMAIN RELEVANT_TOXICITY_TYPES THEN FALSE
        ELSE IF species.k = "str" /\ species.s # <<>> /\ toLower(species.s) = s_human THEN FALSE
        ELSE IF route \notin RELEVANT_ROUTES THEN FALSE
        ELSE IF unit \notin CONVERTIBLE_UNITS /\ ~StartsWith(unit, s_ml_kg) THEN FALSE
        ELSE TRUE

\* get_toxicity_priority
get_toxicity_priority(tox_type) ==
    IF toUpper(tox_type) \in DOMAIN RELEVANT_TOXICITY_TYPES
    THEN RELEVANT_TOXICITY_TYPES[toUpper(tox_type)] ELSE 999

\* round(num / den, digits) of a positive quotient, in units of 1/scale (scale
\* = 10^digits, even): to the nearest, a tie to the even one.  The whole part
\* is split off first, which keeps the products small.
RoundScaled(num, den, scale) ==
    (num \div den) * scale + PyRound((num % den) * scale, den)

\* _calculate_hed_for_entry of an entry that passed the filter: a sequence
\* holding the result dictionary, or empty for None.  hed_mg_kg is kept in
\* ten-thousandths of a mg/kg (round(hed, 4)), total_safe_dose_mg in
\* hundredths of a mg (round(hed * human_weight, 2)).
HUMAN_WEIGHT_KG == 60

calculate_hed_for_entry(entry) ==
    LET tox_type == Get(entry.type, Str(<<>>)).s
        value == GetOrNone(entry.value)
        unit == Get(entry.unit, Str(<<>>)).s
        route == Get(entry.route, Str(<<>>)).s
        species == parse_species(Get(entry.species, Str(<<>>)))
    IN  IF species = NoSpecies THEN <<>>
        ELSE IF value.k = "none" \/ value.n <= 0 THEN <<>>
        ELSE LET normalized == IF StartsWith(toLower(unit), s_ml_kg)
                               THEN value.n * 1000 ELSE value.n
             IN  << [ original_type |-> tox_type,
                      original_value |-> value.n,
                      original_unit |-> unit,
                      animal_species |-> species,
                      route |-> route,
                      normalized_value_mg_kg |-> normalized,
                      hed_mg_kg |-> RoundScaled(HedNumerator(normalized, species),
                                                HedDenominator, 10000),
                      total_safe_dose_mg |->
                          RoundScaled(HedNumerator(normalized, species) * HUMAN_WEIGHT_KG,
                                      HedDenominator, 100) ] >>

\* The list comprehension over is_relevant_toxicity_entry
RECURSIVE FilterRelevant(_)
FilterRelevant(es) ==
    IF es = <<>> THEN <<>>
    ELSE (IF is_relevant_toxicity_entry(Head(es)) THEN <<Head(es)>> ELSE <<>>)
         \o FilterRelevant(Tail(es))

\* The loop that calls _calculate_hed_for_entry and keeps what is not None
RECURSIVE HedResults(_)
HedResults(es) ==
    IF es = <<>> THEN <<>>
    ELSE calculate_hed_for_entry(Head(es)) \o HedResults(Tail(es))

\* list.sort(key = priority): a stable sort, by insertion
RECURSIVE InsertByPriority(_, _)
InsertByPriority(r, sorted) ==
    IF sorted = <<>> THEN <<r>>
    ELSE IF get_toxicity_priority(Head(sorted).original_type)
              <= get_toxicity_priority(r.original_type)
         THEN <<Head(sorted)>> \o InsertByPriority(r, Tail(sorted))
         ELSE <<r>> \o sorted

RECURSIVE SortByPriority(_)
SortByPriority(rs) ==
    IF rs = <<>> THEN <<>>
    ELSE InsertByPriority(rs[Len(rs)], SortByPriority(SubSeq(rs, 1, Len(rs) - 1)))

\* The most conservative result taken by type priority: the first of the sorted list
MinByHed_FirstByPriority(rs) == rs[1]

\* min(hed_results, key = hed_mg_kg): the first of the smallest
MinByHed(rs) ==
    rs[CHOOSE n \in 1..Len(rs) :
         /\ \A m \in 1..Len(rs) : rs[n].hed_mg_kg <= rs[m].hed_mg_kg
         /\ \A m \in 1..(n - 1) : rs[m].hed_mg_kg > rs[n].hed_mg_kg]

\* _calculate_cosmetic_safety with its defaults (human weight 60 kg, safety
\* factor 100, skin penetration 10 %, area 100 cm2): the unrounded
\* safe_concentration_percent is hed * 60 / 100 / 0.1 / 100 / 10 = hed * 0.006.
\* With hed in ten-thousandths of a mg/kg, hed * 6 is that percentage in
\* ten-millionths of a percent (1 % is 10000000).
SafeConcentrationPercent(hed_mg_kg) == hed_mg_kg * 6

calculate_cosmetic_safety(most_conservative_hed) ==
    LET safe_concentration_percent == SafeConcentrationPercent(most_conservative_hed.hed_mg_kg)
    IN  [ hed_mg_kg |-> most_conservative_hed.hed_mg_kg,
          safe_concentration_percent |-> safe_concentration_percent,
          assessment |->
              IF safe_concentration_percent > 1000000000 THEN "SAFE_AT_ANY_CONCENTRATION"
              ELSE IF safe_concentration_percent > 100000000 THEN "SAFE_AT_TYPICAL_USE"
              ELSE IF safe_concentration_percent > 10000000 THEN "SAFE_WITH_LIMITS"
              ELSE IF safe_concentration_percent > 1000000
                   THEN "REQUIRES_CAREFUL_FORMULATION"
              ELSE "HIGH_RISK",
          based_on |-> [ toxicity_type |-> most_conservative_hed.original_type,
                         animal_species |-> most_conservative_hed.animal_species,
                         route |-> most_conservative_hed.route ] ]

\* What process_dermal_toxicity_values returns.  A key the dictionary may
\* lack (reason, most_conservative_hed, cosmetic_safety_assessment) is a
\* sequence: empty when the key is absent, else holding its value.
NotCalculated(reason) ==
    [ called |-> TRUE, raised |-> FALSE, hed_calculated |-> FALSE,
      reason |-> <<reason>>, hed_results |-> <<>>,
      most_conservative_hed |-> <<>>, cosmetic_safety_assessment |-> <<>> ]

Raised ==
    [ called |-> TRUE, raised |-> TRUE, hed_calculated |-> FALSE,
      reason |-> <<>>, hed_results |-> <<>>,
      most_conservative_hed |-> <<>>, cosmetic_safety_assessment |-> <<>> ]

NotCalled ==
    [ called |-> FALSE, raised |-> FALSE, hed_calculated |-> FALSE,
      reason |-> <<>>, hed_results |-> <<>>,
      most_conservative_hed |-> <<>>, cosmetic_safety_assessment |-> <<>> ]

process_dermal_toxicity_values(dermal_toxicity_values) ==
    IF dermal_toxicity_values = <<>>
    THEN NotCalculated("No dermal toxicity data available")
    ELSE IF \E n \in 1..Len(dermal_toxicity_values) : RelevanceRaises(dermal_toxicity_values[n])
    THEN Raised
    ELSE LET relevant_entries == FilterRelevant(dermal_toxicity_values)
         IN  IF relevant_entries = <<>>
             THEN NotCalculated("No relevant animal toxicity data (oral/dermal routes with mg/kg units)")
             ELSE LET hed_results == SortByPriority(HedResults(relevant_entries))
                  IN  IF hed_results # <<>>
                      THEN LET most_conservative == MinByHed(hed_results)
                           IN  [ called |-> TRUE, raised |-> FALSE, hed_calculated |-> TRUE,
                                 reason |-> <<>>,
                                 hed_results |-> hed_results,
                                 most_conservative_hed |-> <<most_conservative>>,
                                 cosmetic_safety_assessment |->
                                     <<calculate_cosmetic_safety(most_conservative)>> ]
                      ELSE NotCalculated("Failed to calculate HED for any entry")

\* prepare_neo4j_data: the fields of the HEDAssessment node the scoring
\* query reads
prepare_neo4j_data(hed_integration_result) ==
    IF ~hed_integration_result.hed_calculated
    THEN [ hed_available |-> FALSE, risk_assessment |-> NoHed ]
    ELSE [ hed_available |-> TRUE,
           risk_assessment |-> hed_integration_result.cosmetic_safety_assessment[1].assessment ]

\* upsert_hed_assessment: the ingredient node after the call; without HED
\* data nothing is written (SET h.risk_assessment = $risk_assessment)
upsert_hed_assessment(i, neo4j_hed_data) ==
    IF ~neo4j_hed_data.hed_available THEN i
    ELSE [i EXCEPT !.hed = neo4j_hed_data.risk_assessment]

(***************************************************************************)
(* The toxicity entries a call may be given.                               *)
(***************************************************************************)
t_NOAEL == <<"N","O","A","E","L">>
t_NOEL == <<"N","O","E","L">>
t_LD50 == <<"L","D","5","0">>
t_NOAEC == <<"N","O","A","E","C">>
t_noael == <<"n","o","a","e","l">>
u_mg_kg_day == <<"m","g","/","k","g","-","d","a","y">>
u_mL_kg == <<"m","L","/","k","g">>
u_ppm == <<"p","p","m">>
r_oral == <<"o","r","a","l">>
r_Dermal == <<"D","e","r","m","a","l">>
r_inhalation == <<"i","n","h","a","l","a","t","i","o","n">>
sp_Rat == <<"R","a","t">>
sp_Mouse == <<"M","o","u","s","e">>
sp_cat == <<"c","a","t">>
sp_human == <<"h","u","m","a","n">>
sp_HumanPadded == <<" ","H","u","m","a","n"," ">>
sp_RatPadded == <<" ","R","A","T"," ">>

Entry(type, value, unit, route, species) ==
    [type |-> type, value |-> value, unit |-> unit, route |-> route, species |-> species]

\* Complete entries of animal studies (among them the two of the module's
\* own example: rat LD50 90 mL/kg and rat NOEL 1000 mg/kg-day)
StudyEntries ==
    { Entry(Str(t), Num(s[1]), Str(s[2]), Str(r_oral), Str(s[3])) :
        t \in {t_NOAEL, t_NOEL, t_LD50},
        s \in { <<1000, u_mg_kg_day, sp_Rat>>, <<2000, u_mg_kg_day, sp_Mouse>>,
                <<90, u_mg_kg_day, sp_Rat>>, <<90, u_mL_kg, sp_Rat>> } }

\* The rat NOEL entry with one key absent, None, or holding another value
BaseEntry == Entry(Str(t_NOEL), Num(1000), Str(u_mg_kg_day), Str(r_oral), Str(sp_Rat))

VariantEntries ==
    { [BaseEntry EXCEPT !.type = x] : x \in {Absent, None, Str(t_NOAEC), Str(t_noael)} }
    \cup { [BaseEntry EXCEPT !.value = x] : x \in {AbsentNum, NoneNum, Num(0), Num(-5)} }
    \cup { [BaseEntry EXCEPT !.unit = x] : x \in {Absent, None, Str(u_ppm)} }
    \cup { [BaseEntry EXCEPT !.route = x] :
             x \in {Absent, None, Str(r_inhalation), Str(r_Dermal)} }
    \cup { [BaseEntry EXCEPT !.species = x] :
             x \in {Absent, None, Str(<<>>), Str(sp_cat), Str(sp_human),
                    Str(sp_HumanPadded), Str(sp_RatPadded)} }

ToxEntries == StudyEntries \cup VariantEntries

\* The lists of at most n entries
RECURSIVE EntryLists(_)
EntryLists(n) ==
    IF n = 0 THEN {<<>>}
    ELSE LET shorter == EntryLists(n - 1)
         IN  shorter \cup { Append(l, e) : l \in shorter, e \in ToxEntries }

(***************************************************************************)
(* HEDCalculator operations (app/utils/hed_calculator.py).                 *)
(*                                                                         *)
(* Doses are whole numbers of mg/kg; a result is the exact quotient        *)
(* num / den of the float the code returns.  An optional argument is None  *)
(* (NoneNum) or a number (Num(n)).                                         *)
(***************************************************************************)
Frac(num, den) == [num |-> num, den |-> den]

\* a < b for two quotients with positive denominators
FracLess(a, b) ==
    IF a.den = b.den THEN a.num < b.num ELSE a.num * b.den < b.num * a.den

FracEq(a, b) ==
    IF a.den = b.den THEN a.num = b.num ELSE a.num * b.den = b.num * a.den

\* Python truth of an optional number: None and 0 are false
Truthy(opt) == opt.k = "num" /\ opt.n # 0

\* Standard body weights, in grams
STANDARD_WEIGHTS ==
    [human |-> 60000, mouse |-> 20, rat |-> 150, rabbit |-> 1800,
     dog |-> 10000, monkey_rhesus |-> 3000]

\* (animal_weight_kg / human_weight_kg) ** 0.33 in ten-thousandths, for the
\* standard animal weights (grams) and the human weights 60 and 70 kg
WeightRatioPower ==
    (<<60000, 60>> :> 10000) @@ (<<20, 60>> :> 712) @@ (<<150, 60>> :> 1385) @@
    (<<1800, 60>> :> 3144) @@ (<<10000, 60>> :> 5536) @@ (<<3000, 60>> :> 3721) @@
    (<<60000, 70>> :> 9504) @@ (<<20, 70>> :> 677) @@ (<<150, 70>> :> 1316) @@
    (<<1800, 70>> :> 2988) @@ (<<10000, 70>> :> 5262) @@ (<<3000, 70>> :> 3536)

\* Eq. 1: HED = dose * (W_animal / W_human) ** 0.33
calculate_hed_by_weight(animal_dose_mg_kg, animal_weight_g, human_weight_kg) ==
    Frac(animal_dose_mg_kg * WeightRatioPower[<<animal_weight_g, human_weight_kg>>], 10000)

\* Eq. 2 with the ratio upside down: Km_human / Km_animal, as in Eq. 5
calculate_hed_by_km_Inverted(animal_dose_mg_kg, animal_species, custom_km_animal) ==
    LET km_animal == IF Truthy(custom_km_animal) THEN custom_km_animal.n
                     ELSE KM_FACTORS[animal_species]
    IN  Frac(animal_dose_mg_kg * HedDenominator, km_animal)

\* Eq. 2: HED = dose * (Km_animal / Km_human); no check of the dose
calculate_hed_by_km(animal_dose_mg_kg, animal_species, custom_km_animal) ==
    IF Truthy(custom_km_animal)
    THEN Frac(animal_dose_mg_kg * custom_km_animal.n, HedDenominator)
    ELSE Frac(HedNumerator(animal_dose_mg_kg, animal_species), HedDenominator)

\* Eq. 5: AED = human dose * (Km_human / Km_animal)
calculate_aed(human_dose_mg_kg, animal_species, custom_km_animal) ==
    LET km_animal == IF Truthy(custom_km_animal) THEN custom_km_animal.n
                     ELSE KM_FACTORS[animal_species]
    IN  Frac(human_dose_mg_kg * HedDenominator, km_animal)

\* Eq. 4: dose (mg/m2) = Km * dose (mg/kg)
convert_mg_kg_to_mg_m2(dose_mg_kg, species, custom_km) ==
    LET km == IF Truthy(custom_km) THEN custom_km.n ELSE KM_FACTORS[species]
    IN  Frac(km * dose_mg_kg, 1)

\* Eq. 4: dose (mg/kg) = dose (mg/m2) / Km
convert_mg_m2_to_mg_kg(dose_mg_m2, species, custom_km) ==
    LET km == IF Truthy(custom_km) THEN custom_km.n ELSE KM_FACTORS[species]
    IN  Frac(dose_mg_m2, km)

\* What a calculator call gave: a number, a selected species, an assessment
NoFrac == Frac(0, 1)
CalcResult(value) ==
    [called |-> TRUE, raised |-> FALSE, value |-> value, species |-> "",
     hed_values |-> <<>>, mrsd_mg_kg |-> NoFrac, total_mrsd_mg |-> NoFrac,
     human_weight_kg |-> 0, assessment |-> ""]
CalcRaised == [CalcResult(NoFrac) EXCEPT !.raised = TRUE]
CalcNotCalled == [CalcResult(NoFrac) EXCEPT !.called = FALSE]

\* assess_dermal_safety with its default area (100 cm2), penetration (10 %)
\* and safety factor (100): value is safe_concentration_percent, which is
\* hed * human_weight / 100 / 0.1 / 100 / 10
assess_dermal_safety(animal_dose_mg_kg, animal_species) ==
    LET hed == calculate_hed_by_km(animal_dose_mg_kg, animal_species, NoneNum)
        safe_concentration_percent == Frac(hed.num * HUMAN_WEIGHT_KG, hed.den * 10000)
    IN  [CalcResult(safe_concentration_percent) EXCEPT
            !.hed_values = <<[species |-> animal_species, hed |-> hed]>>,
            !.assessment = IF FracLess(Frac(1, 100), safe_concentration_percent)
                           THEN "SAFE" ELSE "REQUIRES_FURTHER_EVALUATION"]

MRSD_SAFETY_FACTOR == 10

\* Steps 1 and 2 of calculate_mrsd: the HED of each species of the map, in
\* the order of the map; the weight method leaves out a species without a
\* standard weight
RECURSIVE MrsdHedValues(_, _, _)
MrsdHedValues(noael_values, human_weight_kg, method) ==
    IF noael_values = <<>> THEN <<>>
    ELSE LET species == Head(noael_values).species
             noael == Head(noael_values).noael
             rest == MrsdHedValues(Tail(noael_values), human_weight_kg, method)
         IN  IF method = "weight"
             THEN IF species \notin DOMAIN STANDARD_WEIGHTS THEN rest
                  ELSE <<[species |-> species,
                          hed |-> calculate_hed_by_weight(noael, STANDARD_WEIGHTS[species],
                                                          human_weight_kg)]>> \o rest
             ELSE <<[species |-> species,
                     hed |-> calculate_hed_by_km(noael, species, NoneNum)]>> \o rest

\* min(hed_values, key = hed_values.get): the first species of the least HED
MostSensitive(hed_values) ==
    hed_values[CHOOSE n \in 1..Len(hed_values) :
        /\ \A m \in 1..Len(hed_values) : ~FracLess(hed_values[m].hed, hed_values[n].hed)
        /\ \A m \in 1..(n - 1) : FracLess(hed_values[n].hed, hed_values[m].hed)]

\* calculate_mrsd with the default safety factor; min() of no value raises
calculate_mrsd(noael_values, human_weight_kg, method) ==
    LET hw == IF human_weight_kg.k = "none" THEN HUMAN_WEIGHT_KG ELSE human_weight_kg.n
        hed_values == MrsdHedValues(noael_values, hw, method)
    IN  IF hed_values = <<>> THEN CalcRaised
        ELSE LET most == MostSensitive(hed_values)
                 mrsd_mg_kg == Frac(most.hed.num, most.hed.den * MRSD_SAFETY_FACTOR)
             IN  [CalcResult(most.hed) EXCEPT
                     !.species = most.species,
                     !.hed_values = hed_values,
                     !.mrsd_mg_kg = mrsd_mg_kg,
                     !.total_mrsd_mg = Frac(mrsd_mg_kg.num * hw, mrsd_mg_kg.den),
                     !.human_weight_kg = hw]

\* The calls of the calculator that are tried
CalcDoses == {-5, 0, 18, 50}
CalcSpecies == {"rat", "mouse", "dog", "hamster", "human"}
CustomKms == {NoneNum, Num(7), Num(12)}
Noaels == {5, 18, 50}
HumanWeights == {NoneNum, Num(70)}
Methods == {"km", "weight"}

\* Maps of species to NOAEL of up to n species, as the sequence of their items
RECURSIVE NoaelMaps(_)
NoaelMaps(n) ==
    IF n = 0 THEN {<<>>}
    ELSE LET shorter == NoaelMaps(n - 1)
         IN  shorter \cup
             { Append(m, [species |-> sp, noael |-> v]) :
                 m \in {x \in shorter : Len(x) = n - 1}, sp \in CalcSpecies, v \in Noaels }

DistinctSpecies(m) == \A a, b \in 1..Len(m) : m[a].species = m[b].species => a = b

DoseCall(op, dose, species, custom_km) ==
    [op |-> op, dose |-> dose, species |-> species, custom_km |-> custom_km,
     noael_values |-> <<>>, human_weight_kg |-> NoneNum, method |-> "km"]

MrsdCall(noael_values, human_weight_kg, method) ==
    [op |-> "calculate_mrsd", dose |-> 0, species |-> "human", custom_km |-> NoneNum,
     noael_values |-> noael_values, human_weight_kg |-> human_weight_kg, method |-> method]

DoseOps == {"calculate_hed_by_km", "calculate_aed", "convert_mg_kg_to_mg_m2",
            "convert_mg_m2_to_mg_kg"}

CalcCalls ==
    { DoseCall(op, d, sp, km) : op \in DoseOps, d \in CalcDoses, sp \in CalcSpecies,
                                km \in CustomKms }
    \cup { DoseCall("assess_dermal_safety", d, sp, NoneNum) : d \in CalcDoses, sp \in CalcSpecies }
    \cup { MrsdCall(m, hw, method) :
             m \in {x \in NoaelMaps(MaxSpecies) : DistinctSpecies(x)},
             hw \in HumanWeights, method \in Methods }

NoCalcCall == DoseCall("none", 0, "human", NoneNum)

(***************************************************************************)
(* ChemicalIdentityMapper (app/service/chemical_identity_mapper.py).       *)
(*                                                                         *)
(* The sources are the environment: for each of the four domains the       *)
(* world gives the sources configured for it, in priority order, with what *)
(* an attempt on each one does, and whether the collector itself raises.   *)
(***************************************************************************)
Domains == <<"basic", "toxicology", "regulatory", "physical">>
DomainSet == {Domains[n] : n \in 1..Len(Domains)}

\* The source names of a domain, in priority order
DomainSources ==
    [basic |-> <<"pubchem", "cosing">>, toxicology |-> <<"comptox", "toxval">>,
     regulatory |-> <<"echa", "cosing">>, physical |-> <<"pubchem", "comptox">>]

\* What an attempt on a source does: search_by_name returns found = True,
\* returns found = False, returns found = False with an error, or raises
AttemptKinds == {"found", "not_found", "error", "raises"}

\* confidence_score of a source's response in hundredths; data.get's default 0.5
SourceConfidence(source) ==
    IF source = "pubchem" THEN 80
    ELSE IF source = "cosing" THEN 90
    ELSE IF source = "toxval" THEN 80
    ELSE 50

NoData == [kind |-> "none", source |-> "", confidence_score |-> 0, text |-> ""]
DomainData(source) ==
    [kind |-> "data", source |-> source, confidence_score |-> SourceConfidence(source),
     text |-> ""]
Exc(text) == [kind |-> "exception", source |-> "", confidence_score |-> 0, text |-> text]

\* The for loop of a collector: the first source whose response is found
\* wins; a source that raises or is not found is passed over
RECURSIVE CollectFrom(_, _, _)
CollectFrom(domain, attempts, n) ==
    IF n > Len(attempts) THEN NoData
    ELSE IF attempts[n] = "found" THEN DomainData(DomainSources[domain][n])
    ELSE CollectFrom(domain, attempts, n + 1)

\* The toxicology collector with sources first runs the basic collector
\* for a CAS number, so it raises when that one does
CollectorRaises(domain, domain_world) ==
    \/ domain_world[domain].raises
    \/ /\ domain = "toxicology"
       /\ domain_world[domain].attempts # <<>>
       /\ domain_world["basic"].raises

\* _collect_basic_identifiers, _collect_toxicology_data,
\* _collect_regulatory_data, _collect_physical_data
Collect(domain, domain_world) ==
    IF CollectorRaises(domain, domain_world) THEN Exc("collector failed")
    ELSE CollectFrom(domain, domain_world[domain].attempts, 1)

\* the searches of a source loop if it went on after a source was found
RECURSIVE QueriedFrom_All(_, _, _)
QueriedFrom_All(list, attempts, n) ==
    IF n > Len(attempts) THEN <<>>
    ELSE <<[list |-> list, source |-> DomainSources[list][n]]>>
         \o QueriedFrom_All(list, attempts, n + 1)

\* The searches a source loop makes, in their order: each source of the
\* list up to the first one that is found
RECURSIVE QueriedFrom(_, _, _)
QueriedFrom(list, attempts, n) ==
    IF n > Len(attempts) THEN <<>>
    ELSE <<[list |-> list, source |-> DomainSources[list][n]]>>
         \o (IF attempts[n] = "found" THEN <<>> ELSE QueriedFrom(list, attempts, n + 1))

\* The searches one collector makes (by name, or by CAS number in the
\* toxicology loop when the basic collector gave one)
Queried(domain, domain_world) ==
    IF CollectorRaises(domain, domain_world) THEN <<>>
    ELSE IF domain = "toxicology" /\ domain_world[domain].attempts # <<>>
    THEN QueriedFrom("basic", domain_world["basic"].attempts, 1)
         \o QueriedFrom(domain, domain_world[domain].attempts, 1)
    ELSE QueriedFrom(domain, domain_world[domain].attempts, 1)

\* asyncio.gather as if it gave the results in the order of completion
Gather_AsCompleted(domain_world, completion) ==
    [d \in DomainSet |-> Collect(completion[d], domain_world)]

\* asyncio.gather(..., return_exceptions = True): the result of each
\* collector at its own place, whatever the order of completion
Gather(domain_world, completion) ==
    [d \in DomainSet |-> Collect(d, domain_world)]

\* The "<domain>: <text>" entries of the collectors whose result is an
\* exception, from the n-th domain on
RECURSIVE ErrorsFrom(_, _)
ErrorsFrom(results, n) ==
    IF n > Len(Domains) THEN <<>>
    ELSE IF results[Domains[n]].kind = "exception"
    THEN <<[prefix |-> Domains[n], text |-> results[Domains[n]].text]>>
         \o ErrorsFrom(results, n + 1)
    ELSE ErrorsFrom(results, n + 1)

\* errors keeping only the first collector that raised
ErrorsOf_FirstOnly(results) ==
    IF ErrorsFrom(results, 1) = <<>> THEN <<>> ELSE <<Head(ErrorsFrom(results, 1))>>

\* errors: one "<domain>: <text>" for each collector whose result is an exception
ErrorsOf(results) == ErrorsFrom(results, 1)

\* A collector's result with an exception replaced by None
OrNone(result) == IF result.kind = "exception" THEN NoData ELSE result

\* the source names of the domains that have data, in domain order
RECURSIVE SourcesAppended(_, _)
SourcesAppended(data, n) ==
    IF n > Len(Domains) THEN <<>>
    ELSE IF data[Domains[n]].kind = "data"
    THEN <<data[Domains[n]].source>> \o SourcesAppended(data, n + 1)
    ELSE SourcesAppended(data, n + 1)

AllSources == <<"comptox", "cosing", "echa", "pubchem", "toxval">>

\* list(set(sources_used)): each name once, in the order the string hashes
\* of the process give (one of two orders here)
RECURSIVE ListOfSet(_, _, _)
ListOfSet(S, hash_seed, n) ==
    IF n > Len(AllSources) THEN <<>>
    ELSE LET name == IF hash_seed = 0 THEN AllSources[n]
                     ELSE AllSources[Len(AllSources) + 1 - n]
         IN  (IF name \in S THEN <<name>> ELSE <<>>) \o ListOfSet(S, hash_seed, n + 1)

RECURSIVE SeqSum(_)
SeqSum(q) == IF q = <<>> THEN 0 ELSE Head(q) + SeqSum(Tail(q))

\* ComprehensiveChemicalData.calculate_completeness: the percentage of
\* filled domains and the mean confidence of the filled domains (a quotient)
data_completeness(data) == (Cardinality({d \in DomainSet : data[d].kind = "data"}) * 100) \div 4

total_confidence(data) ==
    LET confidences == SelectSeq([n \in 1..Len(Domains) |->
                                     IF data[Domains[n]].kind = "data"
                                     THEN data[Domains[n]].confidence_score ELSE -1],
                                 LAMBDA c : c >= 0)
    IN  IF confidences = <<>> THEN Frac(0, 1) ELSE Frac(SeqSum(confidences), Len(confidences))

\* found only when two or more domains have data
FoundFlag_MoreThanOne(sources_used) == Len(sources_used) > 1

\* found = len(sources_used) > 0
FoundFlag(sources_used) == Len(sources_used) > 0

ToSet(q) == {q[n] : n \in 1..Len(q)}

\* What map_ingredient returns: a ChemicalIdentityResult whose
\* comprehensive_data (None or a record) is a sequence of length 0 or 1
MapResult(inci_name, comprehensive_data, errors, found) ==
    [raised |-> FALSE, inci_name |-> inci_name, comprehensive_data |-> comprehensive_data,
     sources_checked |-> IF comprehensive_data = <<>> THEN <<>>
                         ELSE comprehensive_data[1].sources_used,
     errors |-> errors, found |-> found]

\* map_ingredient: gather the four collectors, turn exceptions into errors
\* and None, assemble the comprehensive record.  The except branch of the
\* method is not taken: gather with return_exceptions does not raise and the
\* record is built from a text name and typed domain data.
map_ingredient(inci_name, domain_world, completion, hash_seed, now) ==
    LET results == Gather(domain_world, completion)
        errors == ErrorsOf(results)
        data == [d \in DomainSet |-> OrNone(results[d])]
        sources_used == SourcesAppended(data, 1)
        comprehensive_data ==
            [inci_name |-> inci_name,
             domains |-> data,
             sources_used |-> ListOfSet(ToSet(sources_used), hash_seed, 1),
             data_completeness |-> data_completeness(data),
             total_confidence |-> total_confidence(data),
             last_updated |-> now]
    IN  MapResult(inci_name, <<comprehensive_data>>, errors, FoundFlag(sources_used))

\* The worlds that are tried
AttemptLists == {<<>>, <<"found", "found">>, <<"not_found", "error">>, <<"raises", "found">>}

DomainWorlds ==
    {[attempts |-> a, raises |-> FALSE] : a \in AttemptLists}
    \cup {[attempts |-> <<>>, raises |-> TRUE]}

MapWorlds == [DomainSet -> DomainWorlds]

InOrder == [d \in DomainSet |-> d]
Schedules == Permutations(DomainSet)

\* The configured mapper: PubChem for the basic domain, no source for the others
NotConfigured == [attempts |-> <<>>, raises |-> FALSE]
ConfiguredWorld(basic_attempt) ==
    [d \in DomainSet |-> IF d = "basic" THEN [attempts |-> <<basic_attempt>>, raises |-> FALSE]
                         ELSE NotConfigured]

\* What the mapping of a name of a batch does
BatchNames == {"aqua", "glycerin", "unknown-ingredient", "test", "broken"}
NameWorld(name) ==
    IF name \in {"aqua", "glycerin"} THEN ConfiguredWorld("found")
    ELSE IF name = "test" THEN ConfiguredWorld("raises")
    ELSE ConfiguredWorld("not_found")

\* The mapping of the name ends in an exception that leaves map_ingredient
MapRaises(name) == name = "broken"

BATCH_SIZE == 3

\* The result put in place of a mapping that raised
error_result(text) == MapResult("unknown", <<>>, <<[prefix |-> "", text |-> text]>>, FALSE)

\* One gathered chunk: a result for each name of the chunk, in its order
GatherBatch(batch, now) ==
    [n \in 1..Len(batch) |->
        IF MapRaises(batch[n]) THEN error_result("unexpected failure")
        ELSE map_ingredient(batch[n], NameWorld(batch[n]), InOrder, 0, now)]

Min(a, b) == IF a <= b THEN a ELSE b

\* The chunks from the i-th name on
RECURSIVE BatchFrom(_, _)
BatchFrom(inci_names, i) ==
    IF i > Len(inci_names) THEN <<>>
    ELSE GatherBatch(SubSeq(inci_names, i, Min(i + BATCH_SIZE - 1, Len(inci_names))), i)
         \o BatchFrom(inci_names, i + BATCH_SIZE)

\* a batch that leaves out the names whose mapping raised
map_ingredients_batch_DropFailed(inci_names) ==
    SelectSeq(BatchFrom(inci_names, 1), LAMBDA r : r.comprehensive_data # <<>>)

\* map_ingredients_batch
map_ingredients_batch(inci_names) == BatchFrom(inci_names, 1)

RECURSIVE NameLists(_)
NameLists(n) ==
    IF n = 0 THEN {<<>>}
    ELSE LET shorter == NameLists(n - 1)
         IN  shorter \cup { Append(l, name) : l \in shorter, name \in BatchNames }

(***************************************************************************)
(* map_ingredients_batch step by step: the chunks, the mappings of a chunk *)
(* run as tasks, and the asyncio.sleep calls of the mapper.                *)
(***************************************************************************)
MAP_SLEEP_MS == 100
BATCH_SLEEP_MS == 2000

\* The sleeps of one map_ingredient before it gathers its collectors
MAP_SLEEPS == 3

\* a chunk that takes all the names that are left
ChunkPlaces_Unbounded(inci_names, i) == i..Len(inci_names)

\* batch = inci_names[i:i + batch_size], as places of the list (from 1)
ChunkPlaces(inci_names, i) == i..Min(i + BATCH_SIZE - 1, Len(inci_names))

\* if i + batch_size < len(inci_names), for the place i (from 1) of the
\* first name of the chunk
MoreChunks(inci_names, i) == i + BATCH_SIZE <= Len(inci_names)

StartedTasks(places) == [pos \in places |-> 0]

\* One asyncio.sleep call: its duration, who made it, during which chunk
SleepCall(ms, by, i) == [ms |-> ms, by |-> by, chunk |-> i]

RECURSIVE RunLists(_)
RunLists(n) ==
    IF n = 0 THEN {<<>>}
    ELSE LET shorter == RunLists(n - 1)
         IN  shorter \cup { Append(l, name) : l \in shorter, name \in {"aqua", "broken"} }

(***************************************************************************)
(* Source adapters (app/scrapers): search_by_name of the four adapters.    *)
(*                                                                         *)
(* The transport is the environment: what the first look-up does, and for  *)
(* PubChem what the property and the synonym requests that follow a match  *)
(* give.                                                                   *)
(***************************************************************************)
Adapters == {"pubchem", "cosing", "pubchem_v2", "toxval"}

\* The look-up: a match, no match, or a failure of transport or parsing
Lookups == {"match", "no_match", "network_error", "http_error", "malformed"}
LookupFailures == {"network_error", "http_error", "malformed"}

\* str(e) of the exception a failed look-up raises
ErrorText(lookup) ==
    IF lookup = "network_error" THEN "External API unavailable"
    ELSE IF lookup = "http_error" THEN "External API error"
    ELSE "Expecting value"

\* The record search_by_name returns; the error key is a sequence of length
\* 0 (no such key) or 1
AdapterRecord(source, found, error) ==
    [raised |-> FALSE, source |-> source, found |-> found, error |-> error]

\* PubChemScraper.search_by_name: everything inside one try; the property
\* and synonym requests swallow their own failures
pubchem_search_by_name(t) ==
    IF t.lookup \in LookupFailures THEN AdapterRecord("pubchem", FALSE, <<ErrorText(t.lookup)>>)
    ELSE IF t.lookup = "no_match" THEN AdapterRecord("pubchem", FALSE, <<>>)
    ELSE AdapterRecord("pubchem", t.properties = "some" \/ t.synonyms = "cas", <<>>)

\* CosIngScraper.search_by_name: the request inside a try; the page is
\* searched for a CAS number, and a page without one is not found
cosing_search_by_name(t) ==
    IF t.lookup \in {"network_error", "http_error"}
    THEN AdapterRecord("cosing", FALSE, <<ErrorText(t.lookup)>>)
    ELSE AdapterRecord("cosing", t.lookup = "match", <<>>)

\* PubChemScraperV2.search_by_name
pubchem_v2_search_by_name(t) ==
    IF t.lookup \in LookupFailures THEN AdapterRecord("pubchem", FALSE, <<ErrorText(t.lookup)>>)
    ELSE AdapterRecord("pubchem", t.lookup = "match", <<>>)

\* ToxValScraper.search_by_name: the except branch returns {"found": False}
toxval_search_by_name(t) ==
    IF t.lookup \in LookupFailures THEN AdapterRecord("", FALSE, <<>>)
    ELSE IF t.lookup = "no_match" THEN AdapterRecord("", FALSE, <<>>)
    ELSE AdapterRecord("toxval", TRUE, <<>>)

search_by_name(adapter, t) ==
    IF adapter = "pubchem" THEN pubchem_search_by_name(t)
    ELSE IF adapter = "cosing" THEN cosing_search_by_name(t)
    ELSE IF adapter = "pubchem_v2" THEN pubchem_v2_search_by_name(t)
    ELSE toxval_search_by_name(t)

AdapterCalls ==
    [adapter : Adapters, lookup : Lookups, properties : {"some", "none"},
     synonyms : {"cas", "no_cas", "fails"}]

NoAdapterCall == [adapter |-> "none", lookup |-> "no_match", properties |-> "none",
                  synonyms |-> "fails"]

(***************************************************************************)
(* BaseScraper._make_request: the rate limit of one adapter.  Times are in *)
(* tenths of a second.                                                     *)
(***************************************************************************)
\* rate_limit of PubChemScraper (1.0) and CosIngScraper (2.0)
RateLimits == {10, 20}

\* random.uniform(0.1, 0.3)
Jitters == {1, 2, 3}

\* delay = self.rate_limit - elapsed + random.uniform(0.1, 0.3)
SleepDelay(rate_limit, elapsed, jitter) == rate_limit - elapsed + jitter

Sleeping(wake) == [state |-> "sleeping", wake |-> wake]
Sent(at) == [state |-> "sent", wake |-> at]

(***************************************************************************)
(* Specifications.                                                         *)
(***************************************************************************)
\* The mapper and the batch at rest
MapIdle ==
    /\ world = [d \in DomainSet |-> NotConfigured]
    /\ hashSeed = 0
    /\ schedule = InOrder
    /\ rescheduled = FALSE
    /\ mapOuts = <<>>
    /\ queryLog = [d \in DomainSet |-> <<>>]

BatchIdle == names = <<>> /\ batchOut = <<>>

AdapterIdle == adapterCall = NoAdapterCall /\ adapterOut = <<>>

RunIdle ==
    /\ runPhase = "not_called"
    /\ runI = 1
    /\ inFlight = <<>>
    /\ finished = {}
    /\ sleepLog = <<>>

RateIdle ==
    /\ rateLimit = 10
    /\ clock = 0
    /\ lastRequestTime = 0
    /\ requests = <<>>
    /\ sentAt = <<>>

\* Decision: any user profile and product of the graph store within the
\* bounds, then one call of decide_product.
Init ==
    /\ profile \in Profiles
    /\ product \in Products
    /\ decision = NoDecision
    /\ entries = <<>>
    /\ hedOut = NotCalled
    /\ calcCall = NoCalcCall
    /\ calcOut = CalcNotCalled
    /\ MapIdle
    /\ BatchIdle
    /\ AdapterIdle
    /\ RunIdle
    /\ RateIdle
    /\ assessments = <<>>

DecideProduct ==
    /\ ~decision.called
    /\ decision' = DecisionFor(profile, product)
    /\ UNCHANGED <<profile, product, entries, hedOut, calcVars, mapVars, batchVars, adapterVars, runVars, rateVars, assessments>>

Next == DecideProduct

Spec == Init /\ [][Next]_vars

\* HED integration: any list of entries within the bounds, then one call of
\* process_dermal_toxicity_values.
InitHED ==
    /\ profile = NoUser
    /\ product = {}
    /\ decision = NoDecision
    /\ entries \in EntryLists(MaxEntries)
    /\ hedOut = NotCalled
    /\ calcCall = NoCalcCall
    /\ calcOut = CalcNotCalled
    /\ MapIdle
    /\ BatchIdle
    /\ AdapterIdle
    /\ RunIdle
    /\ RateIdle
    /\ assessments = <<>>

ProcessDermalToxicityValues ==
    /\ ~hedOut.called
    /\ hedOut' = process_dermal_toxicity_values(entries)
    /\ UNCHANGED <<profile, product, decision, entries, calcVars, mapVars, batchVars, adapterVars, runVars, rateVars, assessments>>

NextHED == ProcessDermalToxicityValues

SpecHED == InitHED /\ [][NextHED]_vars

\* HEDCalculator: any call within the bounds, then the operation it names.
InitCalc ==
    /\ profile = NoUser
    /\ product = {}
    /\ decision = NoDecision
    /\ entries = <<>>
    /\ hedOut = NotCalled
    /\ calcCall \in CalcCalls
    /\ calcOut = CalcNotCalled
    /\ MapIdle
    /\ BatchIdle
    /\ AdapterIdle
    /\ RunIdle
    /\ RateIdle
    /\ assessments = <<>>

CalcUnchanged == UNCHANGED <<profile, product, decision, entries, hedOut, calcCall, mapVars, batchVars, adapterVars, runVars, rateVars, assessments>>

CalculateHedByKm ==
    /\ ~calcOut.called /\ calcCall.op = "calculate_hed_by_km"
    /\ calcOut' = CalcResult(calculate_hed_by_km(calcCall.dose, calcCall.species, calcCall.custom_km))
    /\ CalcUnchanged

CalculateAed ==
    /\ ~calcOut.called /\ calcCall.op = "calculate_aed"
    /\ calcOut' = CalcResult(calculate_aed(calcCall.dose, calcCall.species, calcCall.custom_km))
    /\ CalcUnchanged

ConvertMgKgToMgM2 ==
    /\ ~calcOut.called /\ calcCall.op = "convert_mg_kg_to_mg_m2"
    /\ calcOut' = CalcResult(convert_mg_kg_to_mg_m2(calcCall.dose, calcCall.species, calcCall.custom_km))
    /\ CalcUnchanged

ConvertMgM2ToMgKg ==
    /\ ~calcOut.called /\ calcCall.op = "convert_mg_m2_to_mg_kg"
    /\ calcOut' = CalcResult(convert_mg_m2_to_mg_kg(calcCall.dose, calcCall.species, calcCall.custom_km))
    /\ CalcUnchanged

AssessDermalSafety ==
    /\ ~calcOut.called /\ calcCall.op = "assess_dermal_safety"
    /\ calcOut' = assess_dermal_safety(calcCall.dose, calcCall.species)
    /\ CalcUnchanged

CalculateMrsd ==
    /\ ~calcOut.called /\ calcCall.op = "calculate_mrsd"
    /\ calcOut' = calculate_mrsd(calcCall.noael_values, calcCall.human_weight_kg, calcCall.method)
    /\ CalcUnchanged

NextCalc ==
    \/ CalculateHedByKm
    \/ CalculateAed
    \/ ConvertMgKgToMgM2
    \/ ConvertMgM2ToMgKg
    \/ AssessDermalSafety
    \/ CalculateMrsd

SpecCalc == InitCalc /\ [][NextCalc]_vars

\* Mapper: any world of sources, then calls of map_ingredient with the same
\* name; the collectors of each call complete in any order.
InitMap ==
    /\ profile = NoUser
    /\ product = {}
    /\ decision = NoDecision
    /\ entries = <<>>
    /\ hedOut = NotCalled
    /\ calcCall = NoCalcCall
    /\ calcOut = CalcNotCalled
    /\ world \in MapWorlds
    /\ hashSeed \in {0, 1}
    /\ schedule = InOrder
    /\ rescheduled = FALSE
    /\ mapOuts = <<>>
    /\ queryLog = [d \in DomainSet |-> <<>>]
    /\ BatchIdle
    /\ AdapterIdle
    /\ RunIdle
    /\ RateIdle
    /\ assessments = <<>>

MapCall(completion) ==
    /\ schedule' = completion
    /\ rescheduled' = (rescheduled \/ (mapOuts # <<>> /\ completion # schedule))
    /\ mapOuts' = Append(mapOuts, map_ingredient("aqua", world, completion, hashSeed,
                                                 Len(mapOuts) + 1))
    /\ queryLog' = [d \in DomainSet |-> Queried(d, world)]
    /\ UNCHANGED <<profile, product, decision, entries, hedOut, calcVars, world, hashSeed,
                   batchVars, adapterVars, runVars, rateVars, assessments>>

MapIngredient == mapOuts = <<>> /\ \E completion \in Schedules : MapCall(completion)

\* The same call once more, against the same world
MapIngredientAgain == Len(mapOuts) = 1 /\ \E completion \in Schedules : MapCall(completion)

NextMap == MapIngredient \/ MapIngredientAgain

SpecMap == InitMap /\ [][NextMap]_vars

\* Batch: any list of names within the bounds, then one call of
\* map_ingredients_batch.
InitBatch ==
    /\ profile = NoUser
    /\ product = {}
    /\ decision = NoDecision
    /\ entries = <<>>
    /\ hedOut = NotCalled
    /\ calcCall = NoCalcCall
    /\ calcOut = CalcNotCalled
    /\ MapIdle
    /\ names \in NameLists(MaxNames)
    /\ batchOut = <<>>
    /\ AdapterIdle
    /\ RunIdle
    /\ RateIdle
    /\ assessments = <<>>

MapIngredientsBatch ==
    /\ batchOut = <<>>
    /\ batchOut' = <<map_ingredients_batch(names)>>
    /\ UNCHANGED <<profile, product, decision, entries, hedOut, calcVars, mapVars, names, adapterVars, runVars, rateVars, assessments>>

NextBatch == MapIngredientsBatch

SpecBatch == InitBatch /\ [][NextBatch]_vars

\* Adapters: any adapter and any behaviour of its transport, then one call
\* of search_by_name.
InitAdapter ==
    /\ profile = NoUser
    /\ product = {}
    /\ decision = NoDecision
    /\ entries = <<>>
    /\ hedOut = NotCalled
    /\ calcCall = NoCalcCall
    /\ calcOut = CalcNotCalled
    /\ MapIdle
    /\ BatchIdle
    /\ adapterCall \in AdapterCalls
    /\ adapterOut = <<>>
    /\ RunIdle
    /\ RateIdle
    /\ assessments = <<>>

SearchByName ==
    /\ adapterOut = <<>>
    /\ adapterOut' = <<search_by_name(adapterCall.adapter, adapterCall)>>
    /\ UNCHANGED <<profile, product, decision, entries, hedOut, calcVars, mapVars, batchVars,
                   adapterCall, runVars, rateVars, assessments>>

NextAdapter == SearchByName

SpecAdapter == InitAdapter /\ [][NextAdapter]_vars

\* Batch run: any list of names within the bounds, then map_ingredients_batch
\* followed through its chunks; the mappings of a chunk advance in any
\* interleaving.
InitRun ==
    /\ profile = NoUser
    /\ product = {}
    /\ decision = NoDecision
    /\ entries = <<>>
    /\ hedOut = NotCalled
    /\ calcCall = NoCalcCall
    /\ calcOut = CalcNotCalled
    /\ MapIdle
    /\ names \in RunLists(MaxRunNames)
    /\ batchOut = <<>>
    /\ AdapterIdle
    /\ RunIdle
    /\ RateIdle
    /\ assessments = <<>>

RunUnchanged ==
    UNCHANGED <<profile, product, decision, entries, hedOut, calcVars, mapVars, names,
                adapterVars, rateVars, assessments>>

\* The call with an empty list returns at once
BatchReturnsEmpty ==
    /\ runPhase = "not_called" /\ names = <<>>
    /\ runPhase' = "returned"
    /\ batchOut' = <<map_ingredients_batch(names)>>
    /\ UNCHANGED <<runI, inFlight, finished, sleepLog>>
    /\ RunUnchanged

\* The first chunk is gathered
BatchStarts ==
    /\ runPhase = "not_called" /\ names # <<>>
    /\ runPhase' = "gathering"
    /\ inFlight' = StartedTasks(ChunkPlaces(names, runI))
    /\ UNCHANGED <<runI, finished, sleepLog, batchOut>>
    /\ RunUnchanged

\* A mapping creates its next collector and sleeps
MappingSleeps(pos) ==
    /\ runPhase = "gathering" /\ pos \in DOMAIN inFlight
    /\ ~MapRaises(names[pos]) /\ inFlight[pos] < MAP_SLEEPS
    /\ sleepLog' = Append(sleepLog, SleepCall(MAP_SLEEP_MS, "map_ingredient", runI))
    /\ inFlight' = [inFlight EXCEPT ![pos] = @ + 1]
    /\ UNCHANGED <<runPhase, runI, finished, batchOut>>
    /\ RunUnchanged

\* A mapping gathers its collectors and returns, or raises
MappingEnds(pos) ==
    /\ runPhase = "gathering" /\ pos \in DOMAIN inFlight
    /\ MapRaises(names[pos]) \/ inFlight[pos] = MAP_SLEEPS
    /\ inFlight' = [q \in DOMAIN inFlight \ {pos} |-> inFlight[q]]
    /\ finished' = finished \cup {pos}
    /\ UNCHANGED <<runPhase, runI, sleepLog, batchOut>>
    /\ RunUnchanged

\* The gather of a chunk is over and names are left: the pause, then the
\* next chunk is gathered
NextChunk ==
    /\ runPhase = "gathering" /\ DOMAIN inFlight = {}
    /\ MoreChunks(names, runI)
    /\ sleepLog' = Append(sleepLog, SleepCall(BATCH_SLEEP_MS, "map_ingredients_batch", runI))
    /\ runI' = runI + BATCH_SIZE
    /\ inFlight' = StartedTasks(ChunkPlaces(names, runI + BATCH_SIZE))
    /\ UNCHANGED <<runPhase, finished, batchOut>>
    /\ RunUnchanged

\* The gather of the last chunk is over: the results are returned
BatchReturns ==
    /\ runPhase = "gathering" /\ DOMAIN inFlight = {}
    /\ ~MoreChunks(names, runI)
    /\ runPhase' = "returned"
    /\ batchOut' = <<map_ingredients_batch(names)>>
    /\ UNCHANGED <<runI, inFlight, finished, sleepLog>>
    /\ RunUnchanged

NextRun ==
    \/ BatchReturnsEmpty
    \/ BatchStarts
    \/ \E pos \in 1..Len(names) : MappingSleeps(pos)
    \/ \E pos \in 1..Len(names) : MappingEnds(pos)
    \/ NextChunk
    \/ BatchReturns

SpecRun == InitRun /\ [][NextRun]_vars

\* Rate limit: one adapter, whose requests are made one after another or
\* while earlier ones are still awaited.
InitRate ==
    /\ profile = NoUser
    /\ product = {}
    /\ decision = NoDecision
    /\ entries = <<>>
    /\ hedOut = NotCalled
    /\ calcCall = NoCalcCall
    /\ calcOut = CalcNotCalled
    /\ MapIdle
    /\ BatchIdle
    /\ AdapterIdle
    /\ RunIdle
    /\ rateLimit \in RateLimits
    /\ clock = StartTime
    /\ lastRequestTime = 0
    /\ requests = <<>>
    /\ sentAt = <<>>
    /\ assessments = <<>>

RateUnchanged ==
    UNCHANGED <<profile, product, decision, entries, hedOut, calcVars, mapVars, batchVars,
                adapterVars, runVars, rateLimit, assessments>>

\* Time passes
Tick ==
    /\ clock < MaxTime
    /\ clock' = clock + 1
    /\ UNCHANGED <<lastRequestTime, requests, sentAt>>
    /\ RateUnchanged

\* _make_request is entered within the interval of the last request: it
\* computes its delay and sleeps
MakeRequestSleeps ==
    /\ Len(requests) < MaxRequests
    /\ clock - lastRequestTime < rateLimit
    /\ \E jitter \in Jitters :
          requests' = Append(requests,
                             Sleeping(clock + SleepDelay(rateLimit, clock - lastRequestTime,
                                                         jitter)))
    /\ UNCHANGED <<clock, lastRequestTime, sentAt>>
    /\ RateUnchanged

\* _make_request is entered after the interval: the request is sent at once
MakeRequestSends ==
    /\ Len(requests) < MaxRequests
    /\ clock - lastRequestTime >= rateLimit
    /\ lastRequestTime' = clock
    /\ sentAt' = Append(sentAt, clock)
    /\ requests' = Append(requests, Sent(clock))
    /\ UNCHANGED clock
    /\ RateUnchanged

\* asyncio.sleep is over: last_request_time is set and the request is sent
SleepOver(r) ==
    /\ r \in 1..Len(requests)
    /\ requests[r].state = "sleeping" /\ clock >= requests[r].wake
    /\ lastRequestTime' = clock
    /\ sentAt' = Append(sentAt, clock)
    /\ requests' = [requests EXCEPT ![r] = Sent(clock)]
    /\ UNCHANGED clock
    /\ RateUnchanged

NextRate ==
    \/ Tick
    \/ MakeRequestSleeps
    \/ MakeRequestSends
    \/ \E r \in 1..MaxRequests : SleepOver(r)

SpecRate == InitRate /\ [][NextRate]_vars

\* Aggregation: any list of ingredient assessments within the bounds, then
\* the part of decide_product that follows the query.
InitAggregate ==
    /\ profile = NoUser
    /\ product = {}
    /\ decision = NoDecision
    /\ entries = <<>>
    /\ hedOut = NotCalled
    /\ calcCall = NoCalcCall
    /\ calcOut = CalcNotCalled
    /\ MapIdle
    /\ BatchIdle
    /\ AdapterIdle
    /\ RunIdle
    /\ RateIdle
    /\ assessments \in AssessmentLists(MaxRows)

AggregateAssessments ==
    /\ ~decision.called
    /\ decision' = DecisionOfRows(assessments)
    /\ UNCHANGED <<profile, product, entries, hedOut, calcVars, mapVars, batchVars, adapterVars,
                   runVars, rateVars, assessments>>

NextAggregate == AggregateAssessments

SpecAggregate == InitAggregate /\ [][NextAggregate]_vars

(***************************************************************************)
(* Claims about the DecisionEngine (specification Spec).                   *)
(***************************************************************************)
\* Two characters that are the same letter in either case, or the same character
SameIgnoringCase(c, d) ==
    \/ c = d
    \/ \E n \in 1..26 : {c, d} = {UpperLetters[n], LowerLetters[n]}

\* Two texts that are equal when letter case is ignored
EqualIgnoringCase(a, b) ==
    /\ Len(a) = Len(b)
    /\ \A n \in 1..Len(a) : SameIgnoringCase(a[n], b[n])

OnKnownIntolerances(row) ==
    \E n \in 1..Len(profile.known_intolerances) :
        EqualIgnoringCase(row.inci, profile.known_intolerances[n])

Rows == { decision.ingredients[n] : n \in 1..Len(decision.ingredients) }

\* C1: an ingredient whose INCI name equals, ignoring letter case, an entry of
\* the user's knownIntolerances has the final risk_score 100, whatever its
\* other sub-scores are.
C1_BlacklistOverride ==
    decision.called =>
        \A row \in Rows : OnKnownIntolerances(row) => row.risk_score = 100

\* C1's case: a name on the list in another letter case, with a sub-score
\* above its baseline, scored 100
C1_Witness ==
    /\ decision.called
    /\ \E row \in Rows :
        /\ OnKnownIntolerances(row)
        /\ ~InList(row.inci, profile.known_intolerances)
        /\ row.score_breakdown.preference = 40
        /\ row.risk_score = 100

\* The risk level the cut points 86 / 61 / 31 give a score
LevelByCutPoints(score) ==
    IF score >= 86 THEN "CRITICAL"
    ELSE IF score >= 61 THEN "HIGH"
    ELSE IF score >= 31 THEN "MODERATE"
    ELSE "LOW"

\* C2: the reported risk level of every ingredient and of the product is the
\* one the cut points give its reported risk_score: >= 86 CRITICAL, 61..85
\* HIGH, 31..60 MODERATE, <= 30 LOW.
C2_LevelFromScore ==
    decision.called =>
        /\ \A row \in Rows : row.risk_level = LevelByCutPoints(row.risk_score)
        /\ decision.overall_risk = LevelByCutPoints(decision.risk_score)

\* C3: every ingredient's risk_score and the product's risk_score are
\* integers in 0..100.
C3_ScoreRange ==
    decision.called =>
        /\ \A row \in Rows : row.risk_score \in 0..100
        /\ decision.risk_score \in 0..100

\* C3's case: a product with a blacklisted ingredient and one scored by the
\* weighted formula
C3_Witness ==
    /\ decision.called
    /\ \E row \in Rows : row.score_breakdown.blacklist >= 90 /\ row.risk_score = 100
    /\ \E row \in Rows : row.score_breakdown.blacklist = 0 /\ row.risk_score > 30
    /\ decision.risk_score = 100

CriticalRows == { row \in Rows : row.risk_level = "CRITICAL" }

\* C4: when at least one ingredient is rated CRITICAL, the product's
\* risk_score is the greatest risk_score of its CRITICAL ingredients.
C4_MaxCritical ==
    (decision.called /\ CriticalRows # {}) =>
        /\ \E row \in CriticalRows : decision.risk_score = row.risk_score
        /\ \A row \in CriticalRows : decision.risk_score >= row.risk_score

\* C4's case: one CRITICAL ingredient among at least three rated LOW
C4_Witness ==
    /\ decision.called
    /\ Cardinality(CriticalRows) = 1
    /\ Cardinality({ row \in Rows : row.risk_level = "LOW" }) >= 3
    /\ decision.risk_score = 95

HighRows == { row \in Rows : row.risk_level = "HIGH" }

\* C5: with three or more ingredients rated HIGH the recommendation is a
\* 'not recommended' (or the stronger 'avoid') verdict.
C5_ThreeHighNotRecommended ==
    (decision.called /\ Cardinality(HighRows) >= 3) =>
        decision.recommendation \in {R_NotRecommended, R_Avoid}

\* C6: with no assessable ingredient the decision has overall_risk LOW and
\* does not present the product as safe to use (it says that no data was
\* available).
C6_NoDataNotSafe ==
    (decision.called /\ decision.ingredients = <<>>) =>
        /\ decision.overall_risk = "LOW"
        /\ decision.recommendation \notin {R_Safe, R_SafeMinor}

(***************************************************************************)
(* Claims about process_dermal_toxicity_values (specification SpecHED).    *)
(***************************************************************************)
TypeRanking == <<t_NOAEL, t_NOEL, <<"N","E","L">>, <<"L","O","A","E","L">>,
                 <<"L","O","E","L">>, <<"L","E","L">>, t_LD50>>

\* The priority rank of a toxicity type (NOAEL = 1 ... LD50 = 7)
TypeRank(t) == CHOOSE n \in 1..7 : EqualIgnoringCase(t, TypeRanking[n])

HedRows == { hedOut.hed_results[n] : n \in 1..Len(hedOut.hed_results) }

\* The places of the input list whose entry gave the result r
PlacesOf(r) ==
    { n \in 1..Len(entries) :
        /\ ~RelevanceRaises(entries[n])
        /\ is_relevant_toxicity_entry(entries[n])
        /\ calculate_hed_for_entry(entries[n]) = <<r>> }

FirstPlaceOf(r) == CHOOSE n \in PlacesOf(r) : \A m \in PlacesOf(r) : n <= m

\* C7: the most conservative entry is a computed result with the least
\* hed_mg_kg; among results of equal hed_mg_kg it has the lowest priority
\* rank, and among those it came first in the input list.
C7_MostConservative ==
    hedOut.hed_calculated =>
        LET mc == hedOut.most_conservative_hed[1]
        IN  /\ mc \in HedRows
            /\ \A r \in HedRows :
                /\ mc.hed_mg_kg <= r.hed_mg_kg
                /\ r.hed_mg_kg = mc.hed_mg_kg =>
                     /\ TypeRank(mc.original_type) <= TypeRank(r.original_type)
                     /\ TypeRank(mc.original_type) = TypeRank(r.original_type) =>
                          FirstPlaceOf(mc) <= FirstPlaceOf(r)

\* C7's case: the chosen result has the least HED although another result
\* has a stricter type priority
C7_Witness ==
    /\ hedOut.hed_calculated
    /\ \E r \in HedRows :
        /\ TypeRank(r.original_type) < TypeRank(hedOut.most_conservative_hed[1].original_type)
        /\ r.hed_mg_kg > hedOut.most_conservative_hed[1].hed_mg_kg

\* The species text with its blanks stripped and its case ignored names a
\* known animal other than human
KnownAnimal(species) ==
    /\ species.k = "str"
    /\ \E name \in DOMAIN SPECIES_MAPPING :
        /\ EqualIgnoringCase(Strip(species.s), name)
        /\ name # s_human

\* An entry that meets all four conditions of the relevance filter
Qualifies(e) ==
    /\ e.type.k = "str" /\ \E n \in 1..7 : EqualIgnoringCase(e.type.s, TypeRanking[n])
    /\ KnownAnimal(e.species)
    /\ e.route.k = "str" /\ \E r \in RELEVANT_ROUTES : EqualIgnoringCase(e.route.s, r)
    /\ e.unit.k = "str"
    /\ \/ \E u \in CONVERTIBLE_UNITS : EqualIgnoringCase(e.unit.s, u)
       \/ /\ Len(e.unit.s) >= Len(s_ml_kg)
          /\ EqualIgnoringCase(SubSeq(e.unit.s, 1, Len(s_ml_kg)), s_ml_kg)

\* The result r reports the type, value, unit and route of the entry e
ResultOf(r, e) ==
    /\ e.type.k = "str" /\ r.original_type = e.type.s
    /\ e.value.k = "num" /\ r.original_value = e.value.n
    /\ e.unit.k = "str" /\ r.original_unit = e.unit.s
    /\ e.route.k = "str" /\ r.route = e.route.s

\* C8: a HED result is produced only for an entry with a relevant type, a
\* known non-human animal species, a relevant route and a convertible unit;
\* none is produced from a human-species entry.
C8_OnlyQualifyingEntries ==
    (hedOut.called /\ ~hedOut.raised) =>
        \A r \in HedRows :
            /\ r.animal_species # "human"
            /\ \E n \in 1..Len(entries) : ResultOf(r, entries[n]) /\ Qualifies(entries[n])

\* C9: when no entry of the list meets the conditions of the relevance filter
\* (the empty list included) the call returns hed_calculated = false with a
\* non-empty reason, no HED results, no most conservative HED and no safety
\* assessment.
C9_NothingRelevant ==
    (hedOut.called /\ \A n \in 1..Len(entries) : ~Qualifies(entries[n])) =>
        /\ ~hedOut.raised
        /\ ~hedOut.hed_calculated
        /\ hedOut.reason # <<>> /\ hedOut.reason[1] # ""
        /\ hedOut.hed_results = <<>>
        /\ hedOut.most_conservative_hed = <<>>
        /\ hedOut.cosmetic_safety_assessment = <<>>

\* C10: the call never raises, and every qualifying entry with a positive
\* value has its HED result whatever the other entries of the list are.
C10_NeverRaises ==
    hedOut.called =>
        /\ ~hedOut.raised
        /\ \A n \in 1..Len(entries) :
             (Qualifies(entries[n]) /\ entries[n].value.k = "num" /\ entries[n].value.n > 0)
                 => \E r \in HedRows : ResultOf(r, entries[n])

(***************************************************************************)
(* Claims about the HEDCalculator (specification SpecCalc).                *)
(***************************************************************************)
TakesDose == DoseOps \cup {"assess_dermal_safety"}

\* C11: an operation that takes a dose rejects a dose <= 0 by signalling an
\* error; it returns no number computed from such a dose.
C11_RejectsInvalidDose ==
    (calcOut.called /\ calcCall.op \in TakesDose /\ calcCall.dose <= 0) => calcOut.raised

\* The Km the formula uses: the custom Km when one is supplied, else the
\* table's Km of the species
KmUsed == IF calcCall.custom_km.k = "num" THEN calcCall.custom_km.n
          ELSE KM_FACTORS[calcCall.species]

C13_MrsdMostSensitive ==
    (calcOut.called /\ calcCall.op = "calculate_mrsd" /\ calcCall.noael_values # <<>>) =>
        /\ ~calcOut.raised
        /\ \E n \in 1..Len(calcCall.noael_values) :
              calcCall.noael_values[n].species = calcOut.species
        /\ \A n \in 1..Len(calcCall.noael_values) :
              \E m \in 1..Len(calcOut.hed_values) :
                 /\ calcOut.hed_values[m].species = calcCall.noael_values[n].species
                 /\ ~FracLess(calcOut.hed_values[m].hed, calcOut.value)
        /\ FracEq(calcOut.total_mrsd_mg,
                  Frac(calcOut.mrsd_mg_kg.num * calcOut.human_weight_kg, calcOut.mrsd_mg_kg.den))

\* What the claims about the mapper speak of: a domain produces data when
\* its collector does not raise and one of its sources answers found; a
\* source is attempted when no source before it answered found.
CollectorRaised(d) ==
    world[d].raises \/ (d = "toxicology" /\ world[d].attempts # <<>> /\ world["basic"].raises)

Produced(d) ==
    /\ ~CollectorRaised(d)
    /\ \E n \in 1..Len(world[d].attempts) : world[d].attempts[n] = "found"

SourceAttempted(d, n) ==
    /\ ~CollectorRaised(d)
    /\ n \in 1..Len(world[d].attempts)
    /\ \A m \in 1..(n - 1) : world[d].attempts[m] # "found"

WinningSource(d) ==
    DomainSources[d][CHOOSE n \in 1..Len(world[d].attempts) :
                        SourceAttempted(d, n) /\ world[d].attempts[n] = "found"]

Calls == 1..Len(mapOuts)
RecordOf(call) == mapOuts[call].comprehensive_data[1]

\* C14: the result of map_ingredient has found = true exactly when one of
\* the four domains produced data; when none did, the result still has a
\* comprehensive record, with an empty sources_used, and found = false.
C14_FoundIffData ==
    \A call \in Calls :
        /\ Len(mapOuts[call].comprehensive_data) = 1
        /\ mapOuts[call].found <=> (\E d \in DomainSet : Produced(d))
        /\ (\A d \in DomainSet : ~Produced(d)) =>
              /\ RecordOf(call).sources_used = <<>>
              /\ ~mapOuts[call].found

\* C14's case: a call in a world where a source was asked and none produced data
C14_Witness ==
    /\ mapOuts # <<>>
    /\ \A d \in DomainSet : ~Produced(d)
    /\ \E d \in DomainSet : SourceAttempted(d, 1)
    /\ RecordOf(1).sources_used = <<>> /\ ~mapOuts[1].found

\* C15: whatever the four collectors do (data, nothing, raise),
\* map_ingredient returns; a collector that raised gives no data for its
\* domain and exactly one entry of errors, and what the other collectors
\* returned is in the result as they returned it.
C15_PartialFailure ==
    \A call \in Calls :
        /\ ~mapOuts[call].raised
        /\ Len(mapOuts[call].comprehensive_data) = 1
        /\ \A d \in DomainSet :
              /\ CollectorRaised(d) =>
                    /\ RecordOf(call).domains[d].kind = "none"
                    /\ Cardinality({n \in 1..Len(mapOuts[call].errors) :
                                       mapOuts[call].errors[n].prefix = d}) = 1
              /\ ~CollectorRaised(d) =>
                    /\ Produced(d) =>
                          /\ RecordOf(call).domains[d].kind = "data"
                          /\ RecordOf(call).domains[d].source = WinningSource(d)
                    /\ ~Produced(d) => RecordOf(call).domains[d].kind = "none"
                    /\ \A n \in 1..Len(mapOuts[call].errors) :
                          mapOuts[call].errors[n].prefix # d

\* C15's case: two collectors raised and another one returned data
C15_Witness ==
    /\ mapOuts # <<>>
    /\ Cardinality({d \in DomainSet : CollectorRaised(d)}) = 2
    /\ \E d \in DomainSet : Produced(d) /\ RecordOf(1).domains[d].kind = "data"
    /\ Len(mapOuts[1].errors) = 2

\* C16: when an attempt on a source fails during map_ingredient (the adapter
\* raises or reports an error), errors of the result has an entry for that
\* source, and the mapping completes.
C16_SourceFailureRecorded ==
    \A call \in Calls :
        \A d \in DomainSet :
            \A n \in 1..Len(world[d].attempts) :
                (SourceAttempted(d, n) /\ world[d].attempts[n] \in {"raises", "error"}) =>
                    /\ ~mapOuts[call].raised
                    /\ \E e \in 1..Len(mapOuts[call].errors) :
                          mapOuts[call].errors[e].prefix \in {d, DomainSources[d][n]}

\* The content of a comprehensive record: its domain data, sources_used,
\* completeness and confidence
ContentOf(call) ==
    [domains |-> RecordOf(call).domains,
     sources_used |-> RecordOf(call).sources_used,
     data_completeness |-> RecordOf(call).data_completeness,
     total_confidence |-> RecordOf(call).total_confidence]

WithoutFailure(inci_names) ==
    [n \in 1..Len(inci_names) |-> IF MapRaises(inci_names[n]) THEN "aqua" ELSE inci_names[n]]

\* C17: map_ingredients_batch returns one result for each name of the list,
\* in the order of the list; where the mapping of a name raised, the result
\* at that place has found = false and carries the error text, and the
\* results at the other places are what they are without that failure.
C17_BatchOneResultPerName ==
    batchOut # <<>> =>
        /\ Len(batchOut[1]) = Len(names)
        /\ \A n \in 1..Len(names) :
              /\ MapRaises(names[n]) =>
                    /\ n \in DOMAIN batchOut[1]
                    /\ ~batchOut[1][n].found
                    /\ \E e \in 1..Len(batchOut[1][n].errors) :
                          batchOut[1][n].errors[e].text = "unexpected failure"
              /\ ~MapRaises(names[n]) =>
                    /\ n \in DOMAIN batchOut[1]
                    /\ batchOut[1][n].inci_name = names[n]
                    /\ batchOut[1][n] = map_ingredients_batch(WithoutFailure(names))[n]

\* C17's case: four names, the mapping of the second raised, the fourth
\* (of the second chunk) was found
C17_Witness ==
    /\ batchOut # <<>>
    /\ Len(names) = 4 /\ names[2] = "broken" /\ names[4] = "glycerin"
    /\ Len(batchOut[1]) = 4
    /\ ~batchOut[1][2].found /\ batchOut[1][2].errors # <<>>
    /\ batchOut[1][4].found /\ batchOut[1][4].inci_name = "glycerin"

\* C19: search_by_name of every adapter does not raise, and a failure of
\* the transport or of the parsing (network error, HTTP error status,
\* malformed response) comes back as a record with found = false and an
\* error text.
C19_AdapterNeverRaises ==
    adapterOut # <<>> =>
        /\ ~adapterOut[1].raised
        /\ adapterCall.lookup \in LookupFailures =>
              /\ ~adapterOut[1].found
              /\ adapterOut[1].error # <<>>

\* The weighted sum of a row's sub-scores, in hundredths
WeightedHundredths(row) ==
    35 * row.score_breakdown.hed + 25 * row.score_breakdown.profile_match
    + 20 * row.score_breakdown.medication + 15 * row.score_breakdown.preference
    + 5 * row.score_breakdown.environmental

\* C20: an ingredient whose blacklist sub-score is below 90 has as risk_score
\* the integer nearest to hed*0.35 + profile*0.25 + medication*0.20 +
\* preference*0.15 + environmental*0.05; the five weights sum to 1.
C20_WeightedFormula ==
    /\ WEIGHT_HED_SAFETY + WEIGHT_PROFILE_MATCH + WEIGHT_MEDICATION_INTERACTION
       + WEIGHT_PREFERENCE_VIOLATION + WEIGHT_ENVIRONMENTAL = 100
    /\ decision.called =>
          \A row \in Rows :
              row.score_breakdown.blacklist < 90 =>
                  /\ 100 * row.risk_score - WeightedHundredths(row) <= 50
                  /\ WeightedHundredths(row) - 100 * row.risk_score <= 50

\* C20's case: an ingredient on no blacklist with sub-scores that differ from
\* one another and a weighted sum that is not a whole number
C20_Witness ==
    /\ decision.called
    /\ \E row \in Rows :
        /\ row.score_breakdown.blacklist < 90
        /\ row.score_breakdown.hed # row.score_breakdown.profile_match
        /\ row.score_breakdown.preference # row.score_breakdown.medication
        /\ WeightedHundredths(row) % 100 # 0
        /\ 100 * row.risk_score - WeightedHundredths(row) <= 50
        /\ WeightedHundredths(row) - 100 * row.risk_score <= 50

\* The six profile rules in their order, with their scores, for the
\* ingredient of a row and the user's profile
RuleScores == <<75, 70, 60, 65, 70, 55>>

HasEffect(i, e) == \E h \in i.hazards : h.route \in Routes /\ e \in h.effects

RuleMatches(k, i) ==
    CASE k = 1 -> (profile.sensitive_skin \/ profile.atopic_skin)
                  /\ (HasEffect(i, "irritation") \/ HasEffect(i, "sensitization"))
      [] k = 2 -> profile.barrier_dysfunction
                  /\ \E h \in i.hazards : h.route \in Routes /\ h.severity = "high"
      [] k = 3 -> profile.acne_prone /\ HasEffect(i, "comedogenic")
      [] k = 4 -> (profile.sensitive_skin \/ "rosacea" \in profile.conditions)
                  /\ (NameHas(i, s_parfum) \/ NameHas(i, s_fragrance))
      [] k = 5 -> ("eczema" \in profile.conditions \/ "psoriasis" \in profile.conditions)
                  /\ HasEffect(i, "irritation")
      [] k = 6 -> profile.cosmetic_allergies # <<>> /\ HasEffect(i, "sensitization")

\* C21: the profile-match sub-score of an ingredient is the score of the
\* first of the six rules that matches, in the fixed order 75, 70, 60, 65,
\* 70, 55, and 20 when none matches; rules after the first match do not
\* change it, even with a higher score.
C21_FirstRuleWins ==
    decision.called =>
        \A row \in Rows :
            LET i == Ingredient(row.ingredient_key)
                matching == {k \in 1..6 : RuleMatches(k, i)}
            IN  /\ matching = {} => row.score_breakdown.profile_match = 20
                /\ matching # {} =>
                      \E k \in matching :
                          /\ \A j \in matching : k <= j
                          /\ row.score_breakdown.profile_match = RuleScores[k]

\* C21's case: an acne-prone user with eczema and a comedogenic irritant:
\* rule 3 (60) matched before rule 5 (70)
C21_Witness ==
    /\ decision.called
    /\ \E row \in Rows :
        /\ RuleMatches(3, Ingredient(row.ingredient_key))
        /\ RuleMatches(5, Ingredient(row.ingredient_key))
        /\ ~RuleMatches(1, Ingredient(row.ingredient_key))
        /\ ~RuleMatches(2, Ingredient(row.ingredient_key))
        /\ row.score_breakdown.profile_match = 60

\* The five categories by the fixed thresholds 100, 10, 1, 0.1 (percent)
CategoryOfPercent(pct) ==
    IF FracLess(Frac(100, 1), pct) THEN "SAFE_AT_ANY_CONCENTRATION"
    ELSE IF FracLess(Frac(10, 1), pct) THEN "SAFE_AT_TYPICAL_USE"
    ELSE IF FracLess(Frac(1, 1), pct) THEN "SAFE_WITH_LIMITS"
    ELSE IF FracLess(Frac(1, 10), pct) THEN "REQUIRES_CAREFUL_FORMULATION"
    ELSE "HIGH_RISK"

\* C22: assess_dermal_safety puts its safe_concentration_percent p into one
\* of five categories: p > 100 no limit, 10 < p <= 100 typical use,
\* 1 < p <= 10 with limits, 0.1 < p <= 1 careful formulation, p <= 0.1 high
\* risk; the cosmetic safety assessment of the most conservative HED is
\* classified the same way.
C22_DermalSafetyClasses ==
    /\ (calcOut.called /\ calcCall.op = "assess_dermal_safety" /\ ~calcOut.raised) =>
          calcOut.assessment = CategoryOfPercent(calcOut.value)
    /\ (hedOut.called /\ hedOut.cosmetic_safety_assessment # <<>>) =>
          hedOut.cosmetic_safety_assessment[1].assessment =
              CategoryOfPercent(Frac(hedOut.cosmetic_safety_assessment[1].safe_concentration_percent,
                                     10000000))

\* The searches of the latest call on the configured sources of domain d
OwnQueries(d) == SelectSeq(queryLog[d], LAMBDA q : q.list = d)

\* C23: within a domain group the configured sources are tried in their
\* priority order: source k + 1 is searched only after source k was not
\* found or failed, no source is searched after the first one that is
\* found, and the domain's data is that of the first source found.
C23_SourcesInPriorityOrder ==
    mapOuts # <<>> =>
        \A d \in DomainSet :
            ~CollectorRaised(d) =>
                /\ Len(OwnQueries(d)) <= Len(world[d].attempts)
                /\ \A n \in 1..Len(OwnQueries(d)) :
                      /\ OwnQueries(d)[n].source = DomainSources[d][n]
                      /\ n > 1 => world[d].attempts[n - 1] # "found"
                      /\ world[d].attempts[n] = "found" =>
                            /\ n = Len(OwnQueries(d))
                            /\ RecordOf(Len(mapOuts)).domains[d].kind = "data"
                            /\ RecordOf(Len(mapOuts)).domains[d].source = DomainSources[d][n]
                /\ (\A n \in 1..Len(OwnQueries(d)) : world[d].attempts[n] # "found") =>
                      /\ Len(OwnQueries(d)) = Len(world[d].attempts)
                      /\ RecordOf(Len(mapOuts)).domains[d].kind = "none"

\* C23's case: one group whose first source is found with a second one
\* configured, another whose first source raises and whose second is found
C23_Witness ==
    /\ mapOuts # <<>>
    /\ \E d \in DomainSet :
          /\ world[d].attempts = <<"found", "found">>
          /\ Len(OwnQueries(d)) = 1
          /\ RecordOf(1).domains[d].source = DomainSources[d][1]
    /\ \E d \in DomainSet :
          /\ world[d].attempts = <<"raises", "found">>
          /\ Len(OwnQueries(d)) = 2
          /\ RecordOf(1).domains[d].source = DomainSources[d][2]

\* The pauses map_ingredients_batch itself took, and the chunk (from 0) of a place
BatchPauses == SelectSeq(sleepLog, LAMBDA c : c.by = "map_ingredients_batch")
ChunkNo(pos) == (pos - 1) \div 3

\* C24: at every moment at most 3 mappings are in flight, no mapping of a
\* chunk starts before every mapping of the chunk before it has finished,
\* and a pause is taken between every two consecutive chunks and none after
\* the last one.
C24_BoundedConcurrency ==
    /\ Cardinality(DOMAIN inFlight) <= 3
    /\ \A pos \in DOMAIN inFlight \cup finished :
          \A q \in 1..Len(names) : ChunkNo(q) < ChunkNo(pos) => q \in finished
    /\ \A pos \in DOMAIN inFlight \cup finished : Len(BatchPauses) >= ChunkNo(pos)
    /\ \A n \in 1..Len(BatchPauses) :
          \E pos \in DOMAIN inFlight \cup finished : ChunkNo(pos) = n
    /\ (runPhase = "returned" /\ names # <<>>) =>
          /\ finished = 1..Len(names)
          /\ Len(BatchPauses) = ChunkNo(Len(names))
          /\ \A n \in 1..Len(BatchPauses) :
                ChunkNo(BatchPauses[n].chunk) = n - 1 /\ n - 1 < ChunkNo(Len(names))

\* C24's case: seven names mapped in three chunks with two pauses
C24_Witness ==
    /\ runPhase = "returned"
    /\ Len(names) = 7
    /\ finished = 1..7
    /\ Len(BatchPauses) = 2
    /\ Len(batchOut[1]) = 7

\* C25: during map_ingredients_batch on a list of several chunks every
\* asyncio.sleep call of the mapper has a duration of 0.1 seconds.
C25_EverySleepTenthOfSecond ==
    \A n \in 1..Len(sleepLog) : sleepLog[n].ms = 100

\* C26: any two successive HTTP requests of an adapter are sent at least
\* rate_limit apart, also when several requests on the adapter are awaited
\* at the same time.
C26_RateLimitKept ==
    \A n \in 1..(Len(sentAt) - 1) : sentAt[n + 1] - sentAt[n] >= rateLimit

\* C27: the recommendation "Safe to use - all ingredients suitable for your
\* profile" is given only to a product whose ingredients are all rated LOW.
C27_SafeOnlyIfAllLow ==
    (decision.called
     /\ decision.recommendation = "Safe to use - all ingredients suitable for your profile") =>
        \A n \in 1..Len(decision.ingredients) : decision.ingredients[n].risk_level = "LOW"

OnDermatologistAvoid(row) ==
    \E n \in 1..Len(profile.dermatologist_avoid) :
        EqualIgnoringCase(row.inci, profile.dermatologist_avoid[n])

OnBlacklist(row) == OnKnownIntolerances(row) \/ OnDermatologistAvoid(row)

\* C29: an ingredient on neither knownIntolerances nor
\* dermatologistRecommendedAvoid has a final risk_score in 13..75 (the
\* weighted scores of the lowest and of the highest sub-scores), so an
\* ingredient is rated CRITICAL exactly when it is on one of the two lists.
C29_CriticalIffBlacklisted ==
    /\ final_risk_score(0, 15, 20, 10, 5, 5) = 13
    /\ final_risk_score(0, 90, 75, 85, 40, 30) = 75
    /\ decision.called =>
        \A row \in Rows :
            /\ ~OnBlacklist(row) => row.risk_score \in 13..75
            /\ row.risk_level = "CRITICAL" <=> OnBlacklist(row)

\* C29's case: a product with an ingredient of each list rated CRITICAL, an
\* ingredient on neither list at the baseline of every sub-score (13), and
\* one on neither list with a critical HED assessment, below CRITICAL
C29_Witness ==
    /\ decision.called
    /\ \E row \in Rows : OnKnownIntolerances(row) /\ row.risk_level = "CRITICAL"
    /\ \E row \in Rows :
        ~OnKnownIntolerances(row) /\ OnDermatologistAvoid(row) /\ row.risk_level = "CRITICAL"
    /\ \E row \in Rows : ~OnBlacklist(row) /\ row.risk_score = 13
    /\ \E row \in Rows :
        ~OnBlacklist(row) /\ row.score_breakdown.hed = 90 /\ row.risk_level = "MODERATE"

\* The ingredient node after the outcome of process_dermal_toxicity_values
\* was stored for an ingredient without an assessment
StoredIngredient == upsert_hed_assessment(Ingredient("parfum"), prepare_neo4j_data(hedOut))

\* C28: every category the integrator stores as an ingredient's HED
\* assessment is recognised by the scoring query's HED sub-score: a stored
\* HIGH_RISK scores strictly higher than the best category
\* (SAFE_AT_ANY_CONCENTRATION) and does not fall to the baseline 25 of an
\* unknown value.
C28_StoredCategoriesRecognised ==
    (hedOut.called /\ hedOut.hed_calculated /\ StoredIngredient.hed = "HIGH_RISK") =>
        /\ hed_risk_score(StoredIngredient)
               > hed_risk_score([Ingredient("parfum") EXCEPT !.hed = "SAFE_AT_ANY_CONCENTRATION"])
        /\ hed_risk_score(StoredIngredient) # 25

====
